---- MODULE Spec2Model ----
(***************************************************************************)
(* A model of the fedsim-mcp simulation and randomization engine:          *)
(*   - generateAppearances   (src/src/actions/randomization-algorithms.ts) *)
(*   - selectWinner / simulateMatch / calculateSegmentRating               *)
(*                            (src/src/actions/action-wrapper.ts)          *)
(*   - the wrestler, production and brand tools over the database tables   *)
(*                            (src/src/tools, src/unnamed/part_002)        *)
(* Every call of Math.random() is a nondeterministic draw r \in Rand that  *)
(* stands for the value r / RandRes of [0, 1).  Fractions are kept exact   *)
(* by scaling: weights of pickOption are in hundredths, weights of         *)
(* selectWinner in tenths, the segment score in hundredths.                *)
(***************************************************************************)
EXTENDS Integers, Sequences, FiniteSets, TLC

VARIABLES
    pc,                 \* position of the call that is running
    wrestlers,          \* generateAppearances: the roster argument
    exclude,            \* generateAppearances: the exclude argument
    minPoints,          \* generateAppearances: the minPoints argument
    config,             \* generateAppearances: the config argument
    availableWrestlers, \* generateAppearances: local
    actualCount,        \* generateAppearances: local
    teamCount,          \* generateAppearances: local (team branch)
    wrestlersPerTeam,   \* generateAppearances: local (team branch)
    teamIndex,          \* generateAppearances: loop counter (team branch)
    memberIndex,        \* generateAppearances: loop counter (member / i)
    groupId,            \* generateAppearances: local (team branch)
    usedIds,            \* generateAppearances: local
    appearances,        \* generateAppearances: local, returned at the end
    mode,               \* generateAppearances: which branch of line 157 ran
    preferredGender,    \* generateAppearances: local, "" before it is drawn
    matchInput,         \* simulateMatch: the appearances argument
    winnerId,           \* simulateMatch: local (selectWinner's result)
    matchResult,        \* simulateMatch: returned list
    ratingInput,        \* calculateSegmentRating: the appearances argument
    rawScore,           \* calculateSegmentRating: local score at line 308
    ratingResult,       \* calculateSegmentRating: returned {score, history}
    attendanceLog,      \* calculateAttendance: the calls made, arguments and result
    revenueLog,         \* calculateRevenue: the calls made, arguments and result
    viewershipLog,      \* calculateViewership: the calls made, arguments and result
    nameInput,          \* generateSegmentName: the wrestlers argument
    segmentName,        \* generateSegmentName: returned string, as its pieces
    toolName,           \* tool call: the name of the tool
    toolArgs,           \* tool call: request.params.arguments, {} when left out
    actionOutcome,      \* createActionWrapper: how the wrapped action ended
    actionResult,       \* createActionWrapper: the ActionResult resolved to
    handlerOutcome,     \* tool call: how tool.handler(args) ended
    wrestlerTable,      \* db.Wrestler: id -> record
    appearanceTable,    \* db.Appearance: id -> record
    segmentTable,       \* db.Segment: id -> record
    productionTable,    \* db.Production: id -> record
    brandTable,         \* db.Brand: id -> record
    autoId,             \* the last id each table has given out (++id)
    tool,               \* the tool whose action is running or ran last, "" at first
    productionId,       \* the productionId argument of the running action
    segments,           \* randomizeProduction / simulateProduction: local, the ids
    segmentIndex,       \* position of the for loop over segments
    usedWrestlerIds,    \* randomizeProduction: local
    randomizedSegments, \* randomizeProduction: local, the ids only
    wrestlersCost,      \* simulateProduction: local
    totalRating,        \* simulateProduction: local, in hundredths
    callOutcome,        \* how the action that ran last ended, {} while one runs
    storeBefore,        \* the tables as they were when the last action started
    toolCalls,          \* number of tool calls made
    bookings,           \* number of booking calls made
    brandCalls          \* update_brand_balance: the calls in flight, each with its
                        \* position, arguments and locals

genVars == <<wrestlers, exclude, minPoints, config, availableWrestlers,
             actualCount, teamCount, wrestlersPerTeam, teamIndex,
             memberIndex, groupId, usedIds, appearances, mode, preferredGender>>
matchVars == <<matchInput, winnerId, matchResult>>
ratingVars == <<ratingInput, rawScore, ratingResult>>
calcVars == <<attendanceLog, revenueLog, viewershipLog>>
nameVars == <<nameInput, segmentName>>
wrapVars == <<toolName, toolArgs, actionOutcome, actionResult, handlerOutcome>>
storeVars == <<wrestlerTable, appearanceTable, segmentTable, productionTable,
               brandTable, autoId>>
toolVars == <<tool, productionId, segments, segmentIndex, usedWrestlerIds,
              randomizedSegments, wrestlersCost, totalRating, callOutcome,
              storeBefore, toolCalls, bookings, brandCalls>>
showVars == <<storeVars, toolVars>>
laterVars == <<calcVars, nameVars, wrapVars, showVars>>
vars == <<pc, genVars, matchVars, ratingVars, laterVars>>

----------------------------------------------------------------------------
(* Bounds of the model *)

\* Math.random() is r / RandRes for a draw r \in Rand
RandRes == 20
\* longest roster handed to generateAppearances
MaxRoster == 4

Rand == 0 .. (RandRes - 1)

\* longest appearance list handed to simulateMatch and calculateSegmentRating
MaxApps == 3

\* longest roster handed to calculateAttendance
MaxCrowd == 2
\* the head counts 0 .. MaxAttendance are handed to calculateRevenue and
\* calculateViewership
MaxAttendance == 6
\* number of calculateViewership calls that are compared
MaxCalls == 2

\* longest list handed to generateSegmentName
MaxNames == 5

\* the draws that getId() is followed on (two of them can collide)
IdDraws == {0, RandRes - 1}

----------------------------------------------------------------------------
(* Helpers on sequences *)

\* Array.prototype.includes
Includes(s, x) == \E i \in 1 .. Len(s) : s[i] = x

Min(a, b) == IF a <= b THEN a ELSE b

RECURSIVE SumSeq(_)
SumSeq(s) == IF s = <<>> THEN 0 ELSE Head(s) + SumSeq(Tail(s))

----------------------------------------------------------------------------
(* randomization-algorithms.ts *)

\* defaultConfig, weights in hundredths
defaultConfig ==
    [ maxTeams |-> 4,
      minPoints |-> 40,
      itemCountConfig |-> [options |-> <<2, 3, 4>>, weights |-> <<70, 20, 10>>],
      groupConfig |-> [options |-> <<TRUE, FALSE>>, weights |-> <<30, 70>>, perGroup |-> 2],
      propertyConfig |-> [options |-> <<"MALE", "FEMALE">>, weights |-> <<75, 25>>] ]

\* getId(): Math.floor(Math.random() * 1000000)
getId(r) == (r * 1000000) \div RandRes

\* the weighted walk of selectRandomItem: threshold and weights scaled by RandRes
RECURSIVE WeightedWalk(_, _, _, _)
WeightedWalk(items, weights, i, threshold) ==
    IF i > Len(items) THEN items[1]   \* fallback
    ELSE IF threshold - weights[i] * RandRes <= 0 THEN items[i]
    ELSE WeightedWalk(items, weights, i + 1, threshold - weights[i] * RandRes)

\* selectRandomItem(items) without weights: items[floor(random * length)]
UniformItem(items, r) == items[((r * Len(items)) \div RandRes) + 1]

\* selectRandomItem(items, weights); a missing weights argument is <<>>
selectRandomItem(items, weights, r) ==
    IF weights = <<>> \/ Len(weights) # Len(items)
    THEN UniformItem(items, r)
    ELSE WeightedWalk(items, weights, 1, r * SumSeq(weights))

\* pickOption({options, weights})
pickOption(cfg, r) == selectRandomItem(cfg.options, cfg.weights, r)

\* a filter that forgets the exclude list
EligibleIgnoringExclude(w, mp, ex) == w.active /\ w.points >= mp

\* the filter of lines 128-133
Eligible(w, mp, ex) == w.active /\ w.points >= mp /\ ~Includes(ex, w.id)

FilterAvailable(ws, mp, ex) == SelectSeq(ws, LAMBDA w : Eligible(w, mp, ex))

\* the guard of line 135 off by one
NotEnoughBelowOne(avail) == Len(avail) < 1

\* line 135
NotEnough(avail) == Len(avail) < 2

\* filterBy('gender')(preferredGender)(availableWrestlers)
filterByGender(value, items) == SelectSeq(items, LAMBDA item : item.gender = value)

\* a gender preference without the fallback to the whole pool
GenderPoolHard(avail, preferred, count) == filterByGender(preferred, avail)

\* a gender preference that is never applied
GenderPoolIgnored(avail, preferred, count) == avail

\* lines 145-150: the gender-filtered pool if it is large enough, else the pool
GenderPool(avail, preferred, count) ==
    LET genderFilteredWrestlers == filterByGender(preferred, avail)
    IN  IF Len(genderFilteredWrestlers) >= count
        THEN genderFilteredWrestlers
        ELSE avail

\* a pick that does not filter the used ids
AvailableForAnyone(avail, used) == avail

\* lines 166 and 188: availableWrestlers.filter(w => !usedIds.includes(w.id))
AvailableFor(avail, used) == SelectSeq(avail, LAMBDA w : ~Includes(used, w.id))

\* selectedWrestler.cost || 0
CostOrZero(w) == IF "cost" \in DOMAIN w THEN w.cost ELSE 0

\* the object pushed at lines 172-180 and 194-202
MakeAppearance(w, gid) ==
    [ wrestlerId |-> w.id, groupId |-> gid, manager |-> FALSE,
      cost |-> CostOrZero(w), winner |-> FALSE, loser |-> FALSE, wrestler |-> w ]

\* an individual branch that books everyone under the groupId it drew
IndividualGroupIdDrawn(i, drawn) == drawn

\* line 196: groupId: i + 1; the groupId drawn at line 185 is not used
IndividualGroupId(i, drawn) == i + 1

\* line 159
TeamCount(count) == Min(2, count \div 2)

\* a team size that forgets to divide the count among the teams
WrestlersPerTeamUndivided(count, teams) == count

\* line 160; with teamCount = 0 JavaScript yields Infinity or NaN, which is never
\* read because the team loop does not run: the model keeps the count then
WrestlersPerTeam(count, teams) == IF teams = 0 THEN count ELSE count \div teams

\* line 157
UseTeams(shouldUseGroups, avail) == shouldUseGroups /\ Len(avail) >= 4

(* the team branch as a function of its draws: draws.ids[t] is the draw of
   getId() for team t, draws.picks the draws of selectRandomItem in the order
   they are made; s holds usedIds, appearances and the number of picks made *)

\* lines 165-181: the inner loop from memberIndex m on
RECURSIVE TeamMembers(_, _, _, _, _, _)
TeamMembers(avail, perTeam, gid, m, picks, s) ==
    LET availableForTeam == AvailableFor(avail, s.usedIds)
    IN  IF m >= perTeam \/ Len(availableForTeam) = 0
        THEN s
        ELSE LET selectedWrestler ==
                     selectRandomItem(availableForTeam, <<>>, picks[s.picked + 1])
             IN  TeamMembers(avail, perTeam, gid, m + 1, picks,
                     [ usedIds |-> Append(s.usedIds, selectedWrestler.id),
                       appearances |-> Append(s.appearances,
                                              MakeAppearance(selectedWrestler, gid)),
                       picked |-> s.picked + 1 ])

\* lines 162-182: the outer loop from teamIndex t on
RECURSIVE TeamLoop(_, _, _, _, _, _)
TeamLoop(avail, teams, perTeam, t, draws, s) ==
    IF t >= teams
    THEN s.appearances
    ELSE TeamLoop(avail, teams, perTeam, t + 1, draws,
             TeamMembers(avail, perTeam, getId(draws.ids[t + 1]), 0, draws.picks, s))

\* lines 159-182
TeamBranch(avail, count, draws) ==
    TeamLoop(avail, TeamCount(count), WrestlersPerTeam(count, TeamCount(count)),
             0, draws, [usedIds |-> <<>>, appearances |-> <<>>, picked |-> 0])

(* generateAppearances, one step per random draw *)

GenStart ==
    /\ pc = "gen_start"
    /\ availableWrestlers' = FilterAvailable(wrestlers, minPoints, exclude)
    /\ pc' = IF NotEnough(availableWrestlers') THEN "gen_done" ELSE "gen_count"
    /\ UNCHANGED <<wrestlers, exclude, minPoints, config, actualCount, teamCount,
                   wrestlersPerTeam, teamIndex, memberIndex, groupId, usedIds,
                   appearances, mode, preferredGender, matchVars, ratingVars, laterVars>>

GenPickCount ==
    /\ pc = "gen_count"
    /\ \E r \in Rand :
         LET participantCount == pickOption(config.itemCountConfig, r)
         IN  actualCount' = Min(participantCount, Len(availableWrestlers))
    /\ pc' = "gen_gender"
    /\ UNCHANGED <<wrestlers, exclude, minPoints, config, availableWrestlers,
                   teamCount, wrestlersPerTeam, teamIndex, memberIndex, groupId,
                   usedIds, appearances, mode, preferredGender, matchVars, ratingVars, laterVars>>

GenPickGender ==
    /\ pc = "gen_gender"
    /\ \E r \in Rand :
         /\ preferredGender' = pickOption(config.propertyConfig, r)
         /\ availableWrestlers' = GenderPool(availableWrestlers, preferredGender', actualCount)
    /\ pc' = "gen_groups"
    /\ UNCHANGED <<wrestlers, exclude, minPoints, config, actualCount, teamCount,
                   wrestlersPerTeam, teamIndex, memberIndex, groupId, usedIds,
                   appearances, mode, matchVars, ratingVars, laterVars>>

\* the getId() of line 185 draws a groupId that the individual branch never uses
GenPickGroups ==
    /\ pc = "gen_groups"
    /\ \E r \in Rand :
         LET shouldUseGroups == pickOption(config.groupConfig, r)
         IN  IF UseTeams(shouldUseGroups, availableWrestlers)
             THEN /\ mode' = "team"
                  /\ teamCount' = TeamCount(actualCount)
                  /\ wrestlersPerTeam' = WrestlersPerTeam(actualCount, teamCount')
                  /\ pc' = "gen_team"
             ELSE /\ mode' = "individual"
                  /\ pc' = "gen_individual"
                  /\ UNCHANGED <<teamCount, wrestlersPerTeam>>
    /\ teamIndex' = 0
    /\ memberIndex' = 0
    /\ usedIds' = <<>>
    /\ appearances' = <<>>
    /\ UNCHANGED <<wrestlers, exclude, minPoints, config, availableWrestlers,
                   actualCount, groupId, preferredGender, matchVars,
                   ratingVars, laterVars>>

\* line 163: the outer loop enters a team and draws its groupId
GenTeamStart ==
    /\ pc = "gen_team"
    /\ teamIndex < teamCount
    /\ \E r \in IdDraws : groupId' = getId(r)
    /\ memberIndex' = 0
    /\ pc' = "gen_member"
    /\ UNCHANGED <<wrestlers, exclude, minPoints, config, availableWrestlers,
                   actualCount, teamCount, wrestlersPerTeam, teamIndex, usedIds,
                   appearances, mode, preferredGender, matchVars, ratingVars, laterVars>>

\* lines 166-180: one member of the current team
GenTeamMember ==
    /\ pc = "gen_member"
    /\ memberIndex < wrestlersPerTeam
    /\ LET availableForTeam == AvailableFor(availableWrestlers, usedIds)
       IN  /\ Len(availableForTeam) # 0
           /\ \E r \in Rand :
                LET selectedWrestler == selectRandomItem(availableForTeam, <<>>, r)
                IN  /\ usedIds' = Append(usedIds, selectedWrestler.id)
                    /\ appearances' = Append(appearances, MakeAppearance(selectedWrestler, groupId))
    /\ memberIndex' = memberIndex + 1
    /\ UNCHANGED <<pc, wrestlers, exclude, minPoints, config, availableWrestlers,
                   actualCount, teamCount, wrestlersPerTeam, teamIndex, groupId,
                   mode, preferredGender, matchVars, ratingVars, laterVars>>

\* the inner loop ends (its bound, or the break of line 167)
GenTeamEnd ==
    /\ pc = "gen_member"
    /\ \/ memberIndex >= wrestlersPerTeam
       \/ Len(AvailableFor(availableWrestlers, usedIds)) = 0
    /\ teamIndex' = teamIndex + 1
    /\ pc' = "gen_team"
    /\ UNCHANGED <<wrestlers, exclude, minPoints, config, availableWrestlers,
                   actualCount, teamCount, wrestlersPerTeam, memberIndex, groupId,
                   usedIds, appearances, mode, preferredGender, matchVars, ratingVars, laterVars>>

\* lines 188-202: one pick of the individual branch, groupId i + 1
GenIndividualPick ==
    /\ pc = "gen_individual"
    /\ memberIndex < actualCount
    /\ LET availableForMatch == AvailableFor(availableWrestlers, usedIds)
       IN  /\ Len(availableForMatch) # 0
           /\ \E r \in Rand :
                LET selectedWrestler == selectRandomItem(availableForMatch, <<>>, r)
                IN  /\ usedIds' = Append(usedIds, selectedWrestler.id)
                    /\ appearances' = Append(appearances,
                                      MakeAppearance(selectedWrestler, IndividualGroupId(memberIndex, groupId)))
    /\ memberIndex' = memberIndex + 1
    /\ UNCHANGED <<pc, wrestlers, exclude, minPoints, config, availableWrestlers,
                   actualCount, teamCount, wrestlersPerTeam, teamIndex, groupId,
                   mode, preferredGender, matchVars, ratingVars, laterVars>>

\* line 206: either loop is over and the list is returned
GenReturn ==
    /\ \/ pc = "gen_team" /\ teamIndex >= teamCount
       \/ /\ pc = "gen_individual"
          /\ \/ memberIndex >= actualCount
             \/ Len(AvailableFor(availableWrestlers, usedIds)) = 0
    /\ pc' = "gen_done"
    /\ UNCHANGED <<genVars, matchVars, ratingVars, laterVars>>

(* the inputs generateAppearances is followed on *)

\* a roster record without its id: an eligible one of either gender (one at the
\* default minPoints threshold and without a cost), an inactive one, and one
\* just below the default threshold
PerformerKinds ==
    { [active |-> TRUE,  points |-> 40, gender |-> "MALE"],
      [active |-> TRUE,  points |-> 95, gender |-> "FEMALE", cost |-> 90],
      [active |-> FALSE, points |-> 95, gender |-> "MALE",   cost |-> 100],
      [active |-> TRUE,  points |-> 39, gender |-> "FEMALE", cost |-> 80] }

\* the database gives every record its own id
WithId(k, i) == [f \in DOMAIN k \cup {"id"} |-> IF f = "id" THEN i ELSE k[f]]

\* a roster of n performers, the kinds k[1] .. k[n] in that order
Roster(n, k) == [i \in 1 .. n |-> WithId(k[i], i)]

Excludes == { <<>>, <<1>>, <<2, 3>> }

\* the default of the minPoints parameter (line 118), and a stricter one
MinPointsArgs == {40, 60}

Configs == { defaultConfig }

MatchIdle == matchInput = <<>> /\ winnerId = {} /\ matchResult = <<>>
CalcIdle == attendanceLog = <<>> /\ revenueLog = <<>> /\ viewershipLog = <<>>
NameIdle == nameInput = <<>> /\ segmentName = <<>>
WrapIdle ==
    /\ toolName = ""
    /\ toolArgs = {}
    /\ actionOutcome = {}
    /\ actionResult = {}
    /\ handlerOutcome = {}
ShowIdle ==
    /\ wrestlerTable = <<>>
    /\ appearanceTable = <<>>
    /\ segmentTable = <<>>
    /\ productionTable = <<>>
    /\ brandTable = <<>>
    /\ autoId = [Wrestler |-> 0, Appearance |-> 0, Segment |-> 0, Production |-> 0,
                 Brand |-> 0]
    /\ tool = ""
    /\ productionId = 0
    /\ segments = <<>>
    /\ segmentIndex = 0
    /\ usedWrestlerIds = <<>>
    /\ randomizedSegments = <<>>
    /\ wrestlersCost = 0
    /\ totalRating = 0
    /\ callOutcome = {}
    /\ storeBefore = <<>>
    /\ toolCalls = 0
    /\ bookings = 0
    /\ brandCalls = <<>>
RatingIdle ==
    ratingInput = <<>> /\ rawScore = 0 /\ ratingResult = [score |-> 0, history |-> <<>>]

InitGen ==
    /\ pc = "gen_start"
    /\ \E n \in 0 .. MaxRoster : \E k \in [1 .. n -> PerformerKinds] :
         wrestlers = Roster(n, k)
    /\ exclude \in Excludes
    /\ minPoints \in MinPointsArgs
    /\ config \in Configs
    /\ availableWrestlers = <<>>
    /\ actualCount = 0
    /\ teamCount = 0
    /\ wrestlersPerTeam = 0
    /\ teamIndex = 0
    /\ memberIndex = 0
    /\ groupId = 0
    /\ usedIds = <<>>
    /\ appearances = <<>>
    /\ mode = "none"
    /\ preferredGender = ""
    /\ MatchIdle
    /\ RatingIdle
    /\ CalcIdle
    /\ NameIdle
    /\ WrapIdle
    /\ ShowIdle

NextGen ==
    \/ GenStart
    \/ GenPickCount
    \/ GenPickGender
    \/ GenPickGroups
    \/ GenTeamStart
    \/ GenTeamMember
    \/ GenTeamEnd
    \/ GenIndividualPick
    \/ GenReturn

SpecGen == InitGen /\ [][NextGen]_vars

----------------------------------------------------------------------------
(* action-wrapper.ts: selectWinner and simulateMatch *)

\* a.wrestler is attached (the field is optional)
HasWrestler(a) == "wrestler" \in DOMAIN a

\* wrestler.<field> || dflt: a missing field or a 0 gives the default
AttrOr(w, field, dflt) ==
    IF field \in DOMAIN w /\ w[field] # 0 THEN w[field] ELSE dflt

\* a weight whose points are not defaulted to 1
WeightNoDefault(w) ==
    LET points == AttrOr(w, "points", 0)
        morale == AttrOr(w, "morale", 0)
        stamina == AttrOr(w, "stamina", 0)
        popularity == AttrOr(w, "popularity", 0)
        charisma == AttrOr(w, "charisma", 0)
    IN  10 * points + 5 * morale + 3 * stamina + 2 * (popularity + charisma)

\* lines 186-191 and 198-203, in tenths
Weight(w) ==
    LET points == AttrOr(w, "points", 1)
        morale == AttrOr(w, "morale", 0)
        stamina == AttrOr(w, "stamina", 0)
        popularity == AttrOr(w, "popularity", 0)
        charisma == AttrOr(w, "charisma", 0)
    IN  10 * points + 5 * morale + 3 * stamina + 2 * (popularity + charisma)

\* the filter of line 180 with the negation of manager lost
WinnerItemsManagers(apps) == SelectSeq(apps, LAMBDA a : HasWrestler(a) /\ a.manager)

\* line 180
WinnerItems(apps) == SelectSeq(apps, LAMBDA a : HasWrestler(a) /\ ~a.manager)

\* lines 184-193
RECURSIVE TotalWeight(_)
TotalWeight(items) ==
    IF items = <<>> THEN 0 ELSE Weight(Head(items).wrestler) + TotalWeight(Tail(items))

\* lines 196-209: threshold and weights scaled by RandRes
RECURSIVE WinnerWalk(_, _, _)
WinnerWalk(items, i, threshold) ==
    IF i > Len(items) THEN items[1].wrestlerId   \* fallback
    ELSE IF threshold - Weight(items[i].wrestler) * RandRes <= 0 THEN items[i].wrestlerId
    ELSE WinnerWalk(items, i + 1, threshold - Weight(items[i].wrestler) * RandRes)

\* selectWinner: number | null, as a set with at most one element (null is {})
selectWinner(apps, r) ==
    LET items == WinnerItems(apps)
    IN  IF Len(items) = 0 THEN {}
        ELSE {WinnerWalk(items, 1, r * TotalWeight(items))}

\* line 217
GroupIds(apps) == { apps[i].groupId : i \in 1 .. Len(apps) }

\* the guard of line 219 off by one
DecisiveFromOne(groupIds) == Cardinality(groupIds) > 0

\* line 219
Decisive(groupIds) == Cardinality(groupIds) > 1

\* line 221: appearances.find(...)?.groupId, undefined is {}
WinningGroup(apps, winner) ==
    LET hits == { i \in 1 .. Len(apps) : apps[i].wrestlerId \in winner }
    IN  IF hits = {} THEN {}
        ELSE { apps[CHOOSE i \in hits : \A j \in hits : i <= j].groupId }

\* lines 223-227
Label(item, winningGroup) ==
    [item EXCEPT !.winner = (item.groupId \in winningGroup),
                 !.loser = (item.groupId \notin winningGroup)]

GenIdle ==
    /\ wrestlers = <<>>
    /\ exclude = <<>>
    /\ minPoints = 40
    /\ config = defaultConfig
    /\ availableWrestlers = <<>>
    /\ actualCount = 0
    /\ teamCount = 0
    /\ wrestlersPerTeam = 0
    /\ teamIndex = 0
    /\ memberIndex = 0
    /\ groupId = 0
    /\ usedIds = <<>>
    /\ appearances = <<>>
    /\ mode = "none"
    /\ preferredGender = ""

\* simulateMatch(matchInput)
SimulateMatch ==
    /\ pc = "match_start"
    /\ IF Decisive(GroupIds(matchInput))
       THEN \E r \in Rand :
              /\ winnerId' = selectWinner(matchInput, r)
              /\ matchResult' =
                   [i \in 1 .. Len(matchInput) |->
                      Label(matchInput[i], WinningGroup(matchInput, winnerId'))]
       ELSE /\ winnerId' = {}
            /\ matchResult' = matchInput
    /\ pc' = "match_done"
    /\ UNCHANGED <<matchInput, genVars, ratingVars, laterVars>>

(* the inputs simulateMatch is followed on *)

\* the linked performers: all attributes 0 (weight 1.0), a main eventer
\* (weight 185.0), and a record with nothing but points
MatchWrestlers ==
    { [points |-> 0, morale |-> 0, stamina |-> 0, popularity |-> 0, charisma |-> 0],
      [points |-> 95, morale |-> 70, stamina |-> 80, popularity |-> 80, charisma |-> 75],
      [points |-> 75] }

\* an appearance without its wrestlerId; the performer may be missing
MatchKinds ==
    { [groupId |-> g, manager |-> m, cost |-> 0, winner |-> FALSE, loser |-> FALSE] :
        g \in 1 .. 2, m \in BOOLEAN }
    \cup
    { [groupId |-> g, manager |-> m, cost |-> 0, winner |-> FALSE, loser |-> FALSE,
       wrestler |-> w] : g \in 1 .. 2, m \in BOOLEAN, w \in MatchWrestlers }

WithWrestlerId(k, i) ==
    [f \in DOMAIN k \cup {"wrestlerId"} |-> IF f = "wrestlerId" THEN i ELSE k[f]]

\* flags left over from an earlier simulation
Stale(a) == [a EXCEPT !.winner = TRUE]

\* a list of n appearances, the kinds k[1] .. k[n] in that order
MatchInput(n, k, stale) ==
    [i \in 1 .. n |-> IF stale THEN Stale(WithWrestlerId(k[i], i))
                       ELSE WithWrestlerId(k[i], i)]

InitMatch ==
    /\ pc = "match_start"
    /\ \E n \in 0 .. MaxApps : \E k \in [1 .. n -> MatchKinds] : \E stale \in BOOLEAN :
         matchInput = MatchInput(n, k, stale)
    /\ winnerId = {}
    /\ matchResult = <<>>
    /\ GenIdle
    /\ RatingIdle
    /\ CalcIdle
    /\ NameIdle
    /\ WrapIdle
    /\ ShowIdle

NextMatch == SimulateMatch

SpecMatch == InitMatch /\ [][NextMatch]_vars

----------------------------------------------------------------------------
(* action-wrapper.ts: calculateSegmentRating *)

\* (a.wrestler?.<field> || 0)
Attr(a, field) == IF HasWrestler(a) THEN AttrOr(a.wrestler, field, 0) ELSE 0

\* a.wrestler?.alignment
AlignmentOf(a) ==
    IF HasWrestler(a) /\ "alignment" \in DOMAIN a.wrestler
    THEN a.wrestler.alignment
    ELSE "undefined"

\* appearances.some / every / filter over one attribute
AnyAtLeast(apps, field, n) == \E i \in 1 .. Len(apps) : Attr(apps[i], field) >= n
AnyAtMost(apps, field, n) == \E i \in 1 .. Len(apps) : Attr(apps[i], field) <= n
AnyEqual(apps, field, n) == \E i \in 1 .. Len(apps) : Attr(apps[i], field) = n
AllAtLeast(apps, field, n) == \A i \in 1 .. Len(apps) : Attr(apps[i], field) >= n
CountAtLeast(apps, field, n) ==
    Cardinality({ i \in 1 .. Len(apps) : Attr(apps[i], field) >= n })
AnyAligned(apps, alignment) == \E i \in 1 .. Len(apps) : AlignmentOf(apps[i]) = alignment

RECURSIVE SumAttr(_, _)
SumAttr(apps, field) ==
    IF apps = <<>> THEN 0 ELSE Attr(Head(apps), field) + SumAttr(Tail(apps), field)

\* an average sum / length compared with a whole number: avg > bound
AvgAbove(apps, field, bound) == SumAttr(apps, field) > bound * Len(apps)

\* line 289 with some in place of every
SomeHasSameAlignment(apps) ==
    \E i \in 1 .. Len(apps) : AlignmentOf(apps[i]) = AlignmentOf(apps[1])

\* line 289
AllHasSameAlignment(apps) ==
    \A i \in 1 .. Len(apps) : AlignmentOf(apps[i]) = AlignmentOf(apps[1])

\* the booleans and counts of lines 244-301; an average is <<sum, length>>
Diagnostics(apps) ==
    [ avgPoints |-> <<SumAttr(apps, "points"), Len(apps)>>,
      hasHighPoints |-> AnyAtLeast(apps, "points", 50),
      hasZeroPoints |-> AnyEqual(apps, "points", 0),
      hasLowPoints |-> AnyAtMost(apps, "points", 20),
      stars |-> CountAtLeast(apps, "points", 90),
      avgMorale |-> <<SumAttr(apps, "morale"), Len(apps)>>,
      hasHighMorale |-> AnyAtLeast(apps, "morale", 50),
      hasZeroMorale |-> AnyEqual(apps, "morale", 0),
      hasLowMorale |-> AnyAtMost(apps, "morale", 20),
      allHighMorale |-> AllAtLeast(apps, "morale", 60),
      avgPopularity |-> <<SumAttr(apps, "popularity"), Len(apps)>>,
      hasLowPopularity |-> AnyAtMost(apps, "popularity", 5),
      hasMiddlingPopularity |-> AnyAtMost(apps, "popularity", 30),
      allHighPopularity |-> AllAtLeast(apps, "popularity", 80),
      superHighPopularity |-> AnyAtLeast(apps, "popularity", 90),
      hasHeel |-> AnyAligned(apps, "HEEL"),
      hasFace |-> AnyAligned(apps, "FACE"),
      hasNeutral |-> AnyAligned(apps, "NEUTRAL"),
      allHasSameAlignment |-> AllHasSameAlignment(apps),
      avgCharisma |-> <<SumAttr(apps, "charisma"), Len(apps)>>,
      hasHighCharisma |-> AnyAtLeast(apps, "charisma", 70),
      hasZeroCharisma |-> AnyEqual(apps, "charisma", 0),
      hasLowCharisma |-> AnyAtMost(apps, "charisma", 20) ]

If(b, n) == IF b THEN n ELSE 0

\* lines 250-254
PointsScore(apps, d) ==
    If(d.hasHighPoints, 50) + If(AvgAbove(apps, "points", 50), 50)
    - If(d.hasZeroPoints, 50) - If(d.hasLowPoints, 20) + 100 * d.stars

\* lines 263-267
MoraleScore(apps, d) ==
    If(d.hasHighMorale, 50) + If(d.allHighMorale, 20) - If(d.hasZeroMorale, 5)
    - If(d.hasLowMorale, 30) + If(AvgAbove(apps, "morale", 50), 50)

\* lines 276-283
PopularityScore(apps, d) ==
    0 - If(d.hasLowPopularity, 50) - If(d.hasMiddlingPopularity, 50)
    + If(d.allHighPopularity, 40)
    + If(AvgAbove(apps, "popularity", 50), 50) + If(AvgAbove(apps, "popularity", 80), 20)
    + If(AvgAbove(apps, "popularity", 90), 10) + If(AvgAbove(apps, "popularity", 95), 100)
    + If(d.superHighPopularity, 70)

\* a mixed-alignment bonus that only counts a heel against a face
AlignmentScoreHeelFaceOnly(d) ==
    If(d.hasHeel /\ d.hasFace, 50)
    - If(d.allHasSameAlignment, 200)
    + If(d.hasHeel \/ d.hasFace, 50)

\* lines 291-295
AlignmentScore(d) ==
    If((d.hasHeel /\ d.hasFace) \/ (d.hasHeel /\ d.hasNeutral) \/ (d.hasFace /\ d.hasNeutral), 50)
    - If(d.allHasSameAlignment, 200)
    + If(d.hasHeel \/ d.hasFace, 50)

\* lines 303-306
CharismaScore(apps, d) ==
    If(d.hasHighCharisma, 50) + If(AvgAbove(apps, "charisma", 50), 50)
    - If(d.hasZeroCharisma, 50) - If(d.hasLowCharisma, 50)

\* the local score when line 308 is reached
RawScore(apps) ==
    LET d == Diagnostics(apps)
    IN  PointsScore(apps, d) + MoraleScore(apps, d) + PopularityScore(apps, d)
        + AlignmentScore(d) + CharismaScore(apps, d)

\* line 309 without the floor at zero
FinalScoreUnfloored(score) == score

\* line 309: Math.max(0, score / 100), in hundredths
FinalScore(score) == IF score > 0 THEN score ELSE 0

\* the guard of line 238 off by one
TooFewToRateBelowOne(apps) == Len(apps) < 1

\* line 238
TooFewToRate(apps) == Len(apps) < 2

\* calculateSegmentRating(ratingInput); the score is in hundredths
CalculateSegmentRating ==
    /\ pc = "rating_start"
    /\ IF TooFewToRate(ratingInput)
       THEN /\ rawScore' = 0
            /\ ratingResult' = [score |-> 0, history |-> <<>>]
       ELSE /\ rawScore' = RawScore(ratingInput)
            /\ ratingResult' =
                 [ score |-> FinalScore(rawScore'),
                   history |-> << [f \in DOMAIN Diagnostics(ratingInput) \cup {"finalScore"} |->
                                     IF f = "finalScore" THEN FinalScore(rawScore')
                                     ELSE Diagnostics(ratingInput)[f]] >> ]
    /\ pc' = "rating_done"
    /\ UNCHANGED <<ratingInput, genVars, matchVars, laterVars>>

(* the inputs calculateSegmentRating is followed on *)

\* the two performers of the high-point test (test/utils.logger.test.ts 197, 206
\* with points 90), the two of the low-point test (225, 234), a performer with
\* every attribute 0, one with every attribute 100 and one with no attribute
RatingA == [points |-> 95, popularity |-> 80, morale |-> 70, stamina |-> 80,
            charisma |-> 75, alignment |-> "FACE"]
RatingB == [points |-> 90, popularity |-> 75, morale |-> 65, stamina |-> 75,
            charisma |-> 70, alignment |-> "HEEL"]
RatingLowA == [points |-> 40, popularity |-> 20, morale |-> 30, stamina |-> 40,
               charisma |-> 25, alignment |-> "NEUTRAL"]
RatingLowB == [points |-> 35, popularity |-> 15, morale |-> 25, stamina |-> 35,
               charisma |-> 20, alignment |-> "NEUTRAL"]

RatingWrestlers ==
    { RatingA, RatingB, RatingLowA, RatingLowB,
      [points |-> 0, popularity |-> 0, morale |-> 0, stamina |-> 0,
       charisma |-> 0, alignment |-> "HEEL"],
      [points |-> 100, popularity |-> 100, morale |-> 100, stamina |-> 100,
       charisma |-> 100, alignment |-> "FACE"],
      [name |-> "Unknown"] }

\* an appearance without its ids; the performer may be missing
RatingKinds ==
    { [manager |-> FALSE, cost |-> 0, winner |-> FALSE, loser |-> FALSE] }
    \cup
    { [manager |-> FALSE, cost |-> 0, winner |-> FALSE, loser |-> FALSE, wrestler |-> w] :
        w \in RatingWrestlers }

\* every appearance on its own side
Placed(k, i) ==
    [f \in DOMAIN k \cup {"wrestlerId", "groupId"} |->
       IF f \in {"wrestlerId", "groupId"} THEN i ELSE k[f]]

\* a list of n appearances, the kinds k[1] .. k[n] in that order
RatingInputOf(n, k) == [i \in 1 .. n |-> Placed(k[i], i)]

InitRating ==
    /\ pc = "rating_start"
    /\ \E n \in 0 .. MaxApps : \E k \in [1 .. n -> RatingKinds] :
         ratingInput = RatingInputOf(n, k)
    /\ rawScore = 0
    /\ ratingResult = [score |-> 0, history |-> <<>>]
    /\ GenIdle
    /\ MatchIdle
    /\ CalcIdle
    /\ NameIdle
    /\ WrapIdle
    /\ ShowIdle

NextRating == CalculateSegmentRating

SpecRating == InitRating /\ [][NextRating]_vars

----------------------------------------------------------------------------
(* action-wrapper.ts: calculateAttendance, calculateRevenue and            *)
(* calculateViewership.  A JavaScript number that need not be whole is an  *)
(* exact fraction <<numerator, denominator>> in lowest terms, and the      *)
(* expressions of the code are evaluated in the order the code has them.   *)

Abs(a) == IF a < 0 THEN 0 - a ELSE a

RECURSIVE GCD(_, _)
GCD(a, b) == IF b = 0 THEN a ELSE GCD(b, a % b)

\* the number n / d, d > 0
Rat(n, d) ==
    LET g == GCD(Abs(n), d)
    IN  IF g = 0 THEN <<0, 1>> ELSE <<n \div g, d \div g>>

\* a + b
RatAdd(a, b) == Rat(a[1] * b[2] + b[1] * a[2], a[2] * b[2])

\* a * b, cancelling before the multiplication
RatMul(a, b) ==
    LET g1 == GCD(Abs(a[1]), b[2])
        g2 == GCD(Abs(b[1]), a[2])
    IN  Rat((a[1] \div g1) * (b[1] \div g2), (a[2] \div g2) * (b[2] \div g1))

\* Math.floor
Floor(a) == a[1] \div a[2]

\* wrestlers.reduce((sum, w) => sum + w.<field>, 0)
RECURSIVE SumField(_, _)
SumField(ws, field) ==
    IF ws = <<>> THEN 0 ELSE Head(ws)[field] + SumField(Tail(ws), field)

\* line 330 and line 331: the sum over the length
Average(ws, field) == Rat(SumField(ws, field), Len(ws))

\* a star count that leaves out the performers at exactly 90 points
StarsAbove(ws) == Cardinality({ i \in 1 .. Len(ws) : ws[i].points > 90 })

\* line 332
Stars(ws) == Cardinality({ i \in 1 .. Len(ws) : ws[i].points >= 90 })

\* line 335: 1 + (stars * 0.3)
StarMultiplier(stars) == RatAdd(Rat(1, 1), RatMul(Rat(stars, 1), Rat(3, 10)))

\* line 336: 1 + (avgPopularity / 100)
PopularityMultiplier(avgPopularity) == RatAdd(Rat(1, 1), RatMul(avgPopularity, Rat(1, 100)))

\* the points factor without its leading 1
PointsMultiplierNoOne(avgPoints) == RatMul(RatAdd(avgPoints, Rat(-50, 1)), Rat(1, 100))

\* line 337: 1 + ((avgPoints - 50) / 100)
PointsMultiplier(avgPoints) ==
    RatAdd(Rat(1, 1), RatMul(RatAdd(avgPoints, Rat(-50, 1)), Rat(1, 100)))

\* calculateAttendance(wrestlers, baseAttendance)
calculateAttendance(ws, baseAttendance) ==
    IF Len(ws) = 0 THEN baseAttendance
    ELSE LET avgPoints == Average(ws, "points")
             avgPopularity == Average(ws, "popularity")
             stars == Stars(ws)
             starMultiplier == StarMultiplier(stars)
             popularityMultiplier == PopularityMultiplier(avgPopularity)
             pointsMultiplier == PointsMultiplier(avgPoints)
         IN  Floor(RatMul(RatMul(RatMul(Rat(baseAttendance, 1), starMultiplier),
                                 popularityMultiplier), pointsMultiplier))

\* a total that forgets the merchandise
TotalTicketsOnly(attendanceIncome, merchIncome) == attendanceIncome

\* line 356
TotalRevenue(attendanceIncome, merchIncome) == attendanceIncome + merchIncome

\* calculateRevenue(attendance, ticketPrice, merchMultiplier); the multiplier
\* is a fraction
calculateRevenue(attendance, ticketPrice, merchMultiplier) ==
    LET attendanceIncome == attendance * ticketPrice
        merchIncome == Floor(RatMul(Rat(attendance, 1), merchMultiplier))
    IN  [ attendanceIncome |-> attendanceIncome,
          merchIncome |-> merchIncome,
          totalRevenue |-> TotalRevenue(attendanceIncome, merchIncome) ]

\* a viewership that adds the multiplier where the code multiplies
calculateViewershipAdded(attendance, tvMultiplier) ==
    Floor(RatAdd(Rat(attendance, 1), tvMultiplier))

\* calculateViewership(attendance, tvMultiplier); the multiplier is a fraction
calculateViewership(attendance, tvMultiplier) ==
    Floor(RatMul(Rat(attendance, 1), tvMultiplier))

(* the inputs the three functions are followed on *)

\* the rosters of the attendance tests (test/utils.logger.test.ts 356-358,
\* 378-379), a performer at exactly 90 points, and the two ends of the range
CrowdKinds ==
    { [points |-> 85, popularity |-> 90],
      [points |-> 80, popularity |-> 85],
      [points |-> 75, popularity |-> 80],
      [points |-> 30, popularity |-> 10],
      [points |-> 25, popularity |-> 5],
      [points |-> 90, popularity |-> 75],
      [points |-> 0, popularity |-> 0],
      [points |-> 100, popularity |-> 100] }

\* the default of line 327, the base of the test of line 370, and 0 and 1
BaseAttendances == {0, 1, 5000, 10000}

\* head counts: the small ones, and those of the tests
Attendances == (0 .. MaxAttendance) \cup {5000, 10000, 12000, 15000, 20000}

\* the default of line 345 and the prices of the test of lines 410-411
TicketPrices == {30, 50, 100}

\* the default of line 345, and 1.5
MerchMultipliers == { <<15, 1>>, <<3, 2>> }

\* the default of line 363 (3.5) and the multipliers of the test (2.0, 4.5)
TvMultipliers == { <<7, 2>>, <<2, 1>>, <<9, 2>> }

(* one call of each function, and up to MaxCalls calls of calculateViewership *)

CalculateAttendance ==
    /\ pc = "attendance_start"
    /\ \E n \in 0 .. MaxCrowd : \E ws \in [1 .. n -> CrowdKinds] :
       \E baseAttendance \in BaseAttendances :
         attendanceLog' = << [ wrestlers |-> ws, baseAttendance |-> baseAttendance,
                               result |-> calculateAttendance(ws, baseAttendance) ] >>
    /\ pc' = "attendance_done"
    /\ UNCHANGED <<revenueLog, viewershipLog, genVars, matchVars, ratingVars, nameVars, wrapVars,
                   showVars>>

CalculateRevenue ==
    /\ pc = "revenue_start"
    /\ \E attendance \in Attendances : \E ticketPrice \in TicketPrices :
       \E merchMultiplier \in MerchMultipliers :
         revenueLog' = << [ attendance |-> attendance, ticketPrice |-> ticketPrice,
                            merchMultiplier |-> merchMultiplier,
                            result |-> calculateRevenue(attendance, ticketPrice, merchMultiplier) ] >>
    /\ pc' = "revenue_done"
    /\ UNCHANGED <<attendanceLog, viewershipLog, genVars, matchVars, ratingVars, nameVars, wrapVars,
                   showVars>>

CalculateViewership ==
    /\ pc = "viewership_start"
    /\ Len(viewershipLog) < MaxCalls
    /\ \E attendance \in Attendances : \E tvMultiplier \in TvMultipliers :
         viewershipLog' = Append(viewershipLog,
                            [ attendance |-> attendance, tvMultiplier |-> tvMultiplier,
                              result |-> calculateViewership(attendance, tvMultiplier) ])
    /\ UNCHANGED <<pc, attendanceLog, revenueLog, genVars, matchVars, ratingVars, nameVars, wrapVars,
                   showVars>>

InitCalc ==
    /\ pc \in {"attendance_start", "revenue_start", "viewership_start"}
    /\ CalcIdle
    /\ GenIdle
    /\ MatchIdle
    /\ RatingIdle
    /\ NameIdle
    /\ WrapIdle
    /\ ShowIdle

NextCalc ==
    \/ CalculateAttendance
    \/ CalculateRevenue
    \/ CalculateViewership

SpecCalc == InitCalc /\ [][NextCalc]_vars

----------------------------------------------------------------------------
(* randomization-algorithms.ts: generateSegmentName.  A string is the      *)
(* sequence of the pieces it is put together from: the literal parts of    *)
(* the template, the names and the printed numbers.                        *)

\* wrestlers.map(w => w.name)
Names(ws) == [i \in 1 .. Len(ws) |-> ws[i].name]

\* Array.prototype.join(sep)
RECURSIVE Join(_, _)
Join(names, sep) ==
    IF names = <<>> THEN <<>>
    ELSE IF Len(names) = 1 THEN <<names[1]>>
    ELSE <<names[1], sep>> \o Join(Tail(names), sep)

\* a slice that keeps one element only
SliceFirstOne(ws) == SubSeq(ws, 1, Min(1, Len(ws)))

\* wrestlers.slice(0, 2)
SliceFirstTwo(ws) == SubSeq(ws, 1, Min(2, Len(ws)))

\* generateSegmentName(wrestlers)
generateSegmentName(ws) ==
    IF Len(ws) = 0 THEN <<"Untitled Segment">>
    ELSE IF Len(ws) = 2 THEN <<ws[1].name, " vs ", ws[2].name>>
    ELSE IF Len(ws) = 3 THEN <<"Triple Threat: ">> \o Join(Names(ws), " vs ")
    ELSE IF Len(ws) = 4 THEN <<"Fatal Four-Way: ">> \o Join(Names(ws), " vs ")
    ELSE <<ToString(Len(ws)), "-Way Match: ">>
         \o Join(Names(SliceFirstTwo(ws)), " vs ")
         \o <<" and ", ToString(Len(ws) - 2), " others">>

GenerateSegmentName ==
    /\ pc = "name_start"
    /\ segmentName' = generateSegmentName(nameInput)
    /\ pc' = "name_done"
    /\ UNCHANGED <<nameInput, genVars, matchVars, ratingVars, calcVars, wrapVars,
                   showVars>>

(* the inputs generateSegmentName is followed on *)

\* three of the names of the tests (test/utils.logger.test.ts 526-549)
WrestlerNames == {"John Cena", "The Rock", "Triple H"}

\* a list of n wrestlers with the names k[1] .. k[n]
NameInputOf(n, k) == [i \in 1 .. n |-> [name |-> k[i]]]

InitName ==
    /\ pc = "name_start"
    /\ \E n \in 0 .. MaxNames : \E k \in [1 .. n -> WrestlerNames] :
         nameInput = NameInputOf(n, k)
    /\ segmentName = <<>>
    /\ GenIdle
    /\ MatchIdle
    /\ RatingIdle
    /\ CalcIdle
    /\ WrapIdle
    /\ ShowIdle

NextName == GenerateSegmentName

SpecName == InitName /\ [][NextName]_vars

----------------------------------------------------------------------------
(* action-wrapper.ts: createActionWrapper, and the tool handlers that call *)
(* a wrapped action (index.ts passes request.params.arguments to the       *)
(* handler as it is, so the arguments or one of their properties can be    *)
(* missing).  The timestamp of an ActionResult and the log lines are left  *)
(* out: nothing reads them back.                                           *)

\* the handlers: the operation they wrap and what they read from args before
\* the call ("none": nothing, "optional": args?.limit, "property": args.id,
\* "nested": args.updates.date)
Tools ==
    [ create_wrestler   |-> [operation |-> "Create Wrestler", reads |-> "none"],
      list_wrestlers    |-> [operation |-> "Fetch All", reads |-> "optional"],
      boost_wrestler    |-> [operation |-> "Boost Wrestler", reads |-> "property"],
      update_production |-> [operation |-> "Update Record", reads |-> "nested"],
      run_demo          |-> [operation |-> "Run Demo Tutorial", reads |-> "none"] ]

\* reading a property of undefined throws a TypeError: the handler's own
\* statements run outside the try of the wrapper
ReadThrows(reads, args) ==
    \/ reads = "property" /\ args = {}
    \/ reads = "nested" /\ (args = {} \/ \E a \in args : "updates" \notin DOMAIN a)

\* error instanceof Error ? error.message : String(error)
errorMessage(error) == IF error.isError THEN error.message ELSE error.text

\* lines 32-37 and 48-53: the object the wrapper resolves to
ActionResultOf(operation, outcome) ==
    IF outcome.kind = "returned"
    THEN [success |-> TRUE, data |-> outcome.data, operation |-> operation]
    ELSE [success |-> FALSE, error |-> errorMessage(outcome.error), operation |-> operation]

\* result.success ? result.data : `Error: ${result.error}`
HandlerValue(result) ==
    IF result.success
    THEN [kind |-> "returned", data |-> result.data]
    ELSE [kind |-> "returned", text |-> <<"Error: ", result.error>>]

(* the tool calls that are followed *)

\* arguments: left out, without an id, with an id, with an id and updates
ToolArgs ==
    { {},
      {[limit |-> 10]},
      {[id |-> 1]},
      {[id |-> 1, updates |-> [name |-> "Renamed"]]} }

\* what an action returns: a record, a list, or undefined
ActionData == {"record", "list", "undefined"}

\* what an action throws: the errors of the tools and of the database, and a
\* value that is no Error
Thrown ==
    { [isError |-> TRUE, message |-> "Wrestler with ID 1 not found"],
      [isError |-> TRUE, message |-> "Database error"],
      [isError |-> TRUE, message |-> "Invalid table name: Nowhere"],
      [isError |-> FALSE, text |-> "timeout"] }

\* the handler's statements before the call of the wrapped action
HandlerCall ==
    /\ pc = "handler_start"
    /\ IF ReadThrows(Tools[toolName].reads, toolArgs)
       THEN /\ handlerOutcome' = {[kind |-> "threw", error |-> "TypeError"]}
            /\ pc' = "handler_done"
       ELSE /\ pc' = "wrapper_try"
            /\ UNCHANGED handlerOutcome
    /\ UNCHANGED <<toolName, toolArgs, actionOutcome, actionResult,
                   genVars, matchVars, ratingVars, calcVars, nameVars,
                   showVars>>

\* line 23: the awaited action returns a result
ActionReturns ==
    /\ pc = "wrapper_try"
    /\ \E data \in ActionData : actionOutcome' = {[kind |-> "returned", data |-> data]}
    /\ pc' = "wrapper_settle"
    /\ UNCHANGED <<toolName, toolArgs, actionResult, handlerOutcome,
                   genVars, matchVars, ratingVars, calcVars, nameVars,
                   showVars>>

\* line 23: the awaited action throws or rejects
ActionThrows ==
    /\ pc = "wrapper_try"
    /\ \E error \in Thrown : actionOutcome' = {[kind |-> "threw", error |-> error]}
    /\ pc' = "wrapper_settle"
    /\ UNCHANGED <<toolName, toolArgs, actionResult, handlerOutcome,
                   genVars, matchVars, ratingVars, calcVars, nameVars,
                   showVars>>

\* lines 24-37 or 38-53: the wrapper resolves
WrapperSettle ==
    /\ pc = "wrapper_settle"
    /\ actionResult' = { ActionResultOf(Tools[toolName].operation, outcome) :
                           outcome \in actionOutcome }
    /\ pc' = "handler_resume"
    /\ UNCHANGED <<toolName, toolArgs, actionOutcome, handlerOutcome,
                   genVars, matchVars, ratingVars, calcVars, nameVars,
                   showVars>>

\* the handler's return statement
HandlerReturn ==
    /\ pc = "handler_resume"
    /\ handlerOutcome' = { HandlerValue(result) : result \in actionResult }
    /\ pc' = "handler_done"
    /\ UNCHANGED <<toolName, toolArgs, actionOutcome, actionResult,
                   genVars, matchVars, ratingVars, calcVars, nameVars,
                   showVars>>

InitWrap ==
    /\ pc = "handler_start"
    /\ toolName \in DOMAIN Tools
    /\ toolArgs \in ToolArgs
    /\ actionOutcome = {}
    /\ actionResult = {}
    /\ handlerOutcome = {}
    /\ GenIdle
    /\ MatchIdle
    /\ RatingIdle
    /\ CalcIdle
    /\ NameIdle
    /\ ShowIdle

NextWrap ==
    \/ HandlerCall
    \/ ActionReturns
    \/ ActionThrows
    \/ WrapperSettle
    \/ HandlerReturn

SpecWrap == InitWrap /\ [][NextWrap]_vars

----------------------------------------------------------------------------
(* The tables of the database.  A table is a function from the ids that are  *)
(* in it to their records; table.get(id) is a set with at most one element.  *)

\* Math.max
Max(a, b) == IF a >= b THEN a ELSE b

\* table.get(id): T | undefined
TableGet(table, id) == IF id \in DOMAIN table THEN {table[id]} ELSE {}

\* { ...existing, ...updates }
Merge(existing, updates) ==
    [f \in DOMAIN existing \cup DOMAIN updates |->
        IF f \in DOMAIN updates THEN updates[f] ELSE existing[f]]

\* table.add(item) under the id the table gives out
TableAdd(table, id, item) ==
    [i \in DOMAIN table \cup {id} |->
        IF i = id THEN Merge(item, [id |-> id]) ELSE table[i]]

\* table.update(id, updates): nothing happens when the record is missing
TableUpdate(table, id, updates) ==
    IF id \in DOMAIN table
    THEN [table EXCEPT ![id] = Merge(table[id], updates)]
    ELSE table

\* table.delete(id)
TableDelete(table, id) == [i \in DOMAIN table \ {id} |-> table[i]]

\* the ids of a table in the order toArray() lists them
RECURSIVE SortedIds(_)
SortedIds(ids) ==
    IF ids = {} THEN <<>>
    ELSE LET least == CHOOSE i \in ids : \A j \in ids : i <= j
         IN  <<least>> \o SortedIds(ids \ {least})

\* table.toArray()
ToArray(table) == [i \in 1 .. Len(SortedIds(DOMAIN table)) |-> table[SortedIds(DOMAIN table)[i]]]

\* the four tables the production tools work on
Store ==
    [ Wrestler |-> wrestlerTable, Appearance |-> appearanceTable,
      Segment |-> segmentTable, Production |-> productionTable ]

----------------------------------------------------------------------------
(* The wrestler tools and create_production, one step each *)

\* number of tool calls that are followed
MaxToolCalls == 4
\* number of wrestlers that are in the database at the start
MaxStoreRoster == 4
\* number of productions that are created
MaxProductions == 1
\* number of calls that book a segment (randomize_production and
\* create_random_segment)
MaxBookings == 1

\* the ids the wrestler tools are called with
WrestlerIdArgs == {1}

\* the cost update_wrestler is called with
CostArgs == {250}

\* the ids the production tools are called with: one that never exists, and
\* the productions that can
ProductionIdArgs == 0 .. MaxProductions

\* how an action ended: it returned, or it threw the error
Returned == {[kind |-> "returned"]}
Threw(message) == {[kind |-> "threw", error |-> message]}

\* the state of the parts that the wrestler and production tools leave alone
generalVars == <<matchVars, ratingVars, calcVars, nameVars, wrapVars, brandCalls>>
loopVars == <<productionId, segments, segmentIndex, usedWrestlerIds,
              randomizedSegments, wrestlersCost, totalRating>>

\* a tool call starts: the call is counted and the tables are remembered
ToolCall(name) ==
    /\ pc = "tool_idle"
    /\ toolCalls < MaxToolCalls
    /\ toolCalls' = toolCalls + 1
    /\ tool' = name
    /\ storeBefore' = Store

\* part_002 lines 36-43
BoostUpdates(w) ==
    [ morale |-> Min(100, w.morale + 5),
      popularity |-> Min(100, w.popularity + 5),
      damage |-> Max(0, w.damage - 2),
      charisma |-> Min(100, w.charisma + 3),
      stamina |-> Min(100, w.stamina + 3),
      points |-> Min(100, w.points + 2) ]

\* part_002 lines 70-76
PenalizeUpdates(w) ==
    [ morale |-> Max(0, w.morale - 3),
      popularity |-> Max(0, w.popularity - 3),
      damage |-> Min(100, w.damage + 5),
      stamina |-> Max(0, w.stamina - 3),
      points |-> Max(0, w.points - 2) ]

\* boost_wrestler
BoostWrestler ==
    /\ ToolCall("boost_wrestler")
    /\ \E id \in WrestlerIdArgs :
         IF TableGet(wrestlerTable, id) = {}
         THEN /\ callOutcome' = Threw("Wrestler not found")
              /\ UNCHANGED wrestlerTable
         ELSE /\ wrestlerTable' =
                    TableUpdate(wrestlerTable, id, BoostUpdates(wrestlerTable[id]))
              /\ callOutcome' = Returned
    /\ UNCHANGED <<pc, appearanceTable, segmentTable, productionTable, brandTable,
                   autoId, bookings, loopVars, genVars, generalVars>>

\* penalize_wrestler
PenalizeWrestler ==
    /\ ToolCall("penalize_wrestler")
    /\ \E id \in WrestlerIdArgs :
         IF TableGet(wrestlerTable, id) = {}
         THEN /\ callOutcome' = Threw("Wrestler not found")
              /\ UNCHANGED wrestlerTable
         ELSE /\ wrestlerTable' =
                    TableUpdate(wrestlerTable, id, PenalizeUpdates(wrestlerTable[id]))
              /\ callOutcome' = Returned
    /\ UNCHANGED <<pc, appearanceTable, segmentTable, productionTable, brandTable,
                   autoId, bookings, loopVars, genVars, generalVars>>

\* update_wrestler with updates {cost}: DatabaseActions.updateRecord
UpdateWrestler ==
    /\ ToolCall("update_wrestler")
    /\ \E id \in WrestlerIdArgs : \E cost \in CostArgs :
         wrestlerTable' = TableUpdate(wrestlerTable, id, [cost |-> cost])
    /\ callOutcome' = Returned
    /\ UNCHANGED <<pc, appearanceTable, segmentTable, productionTable, brandTable,
                   autoId, bookings, loopVars, genVars, generalVars>>

\* delete_wrestler: DatabaseActions.deleteRecord
DeleteWrestler ==
    /\ ToolCall("delete_wrestler")
    /\ \E id \in WrestlerIdArgs : wrestlerTable' = TableDelete(wrestlerTable, id)
    /\ callOutcome' = Returned
    /\ UNCHANGED <<pc, appearanceTable, segmentTable, productionTable, brandTable,
                   autoId, bookings, loopVars, genVars, generalVars>>

\* production-tools.ts lines 22-41, the fields the tools read or write
defaultProduction ==
    [ name |-> "New Show", segmentIds |-> <<>>, wrestlersCost |-> 0,
      segmentsCost |-> 0, merchIncome |-> 0, attendanceIncome |-> 0,
      attendance |-> 0, viewers |-> 0, step |-> 0, complete |-> FALSE ]

\* create_production
CreateProduction ==
    /\ ToolCall("create_production")
    /\ autoId.Production < MaxProductions
    /\ autoId' = [autoId EXCEPT !.Production = @ + 1]
    /\ productionTable' = TableAdd(productionTable, autoId'.Production, defaultProduction)
    /\ callOutcome' = Returned
    /\ UNCHANGED <<pc, wrestlerTable, appearanceTable, segmentTable, brandTable,
                   bookings, loopVars, genVars, generalVars>>

----------------------------------------------------------------------------
(* production-tools.ts: randomize_production and create_random_segment.   *)
(* Both call generateAppearances, which runs as the steps of SpecGen.  Of a *)
(* segment the tables keep name, appearanceIds, type, rating and complete;  *)
(* its duration is drawn and stored, and no tool decides anything by it.    *)

\* db.Wrestler.filter(w => w.active).toArray()
ActiveWrestlers == SelectSeq(ToArray(wrestlerTable), LAMBDA w : w.active)

\* db.Segment.filter(segment => ids.includes(segment.id)).toArray(), the ids
SegmentsOf(ids) ==
    SelectSeq(SortedIds(DOMAIN segmentTable), LAMBDA id : Includes(ids, id))

\* db.Appearance.filter(appearance => ids.includes(appearance.id)).toArray()
AppearancesOf(ids) ==
    SelectSeq(ToArray(appearanceTable), LAMBDA a : Includes(ids, a.id))

\* an exclude list of the last 2 used wrestlers
LastTwo(used) == SubSeq(used, Max(1, Len(used) - 1), Len(used))

\* usedWrestlerIds.slice(-4)
LastFour(used) == SubSeq(used, Max(1, Len(used) - 3), Len(used))

\* options?.minPoints || 30, the option left out
RandomizeMinPoints == 30

\* options?.minPoints || 40, the option left out
RandomSegmentMinPoints == 40

\* options.maxSegments || 5, the option left out
DefaultMaxSegments == 5

\* lines 376-382: the fresh wrestlers, or everybody when fewer than 2 are left
WrestlersPool(roster, used) ==
    LET fresh == SelectSeq(roster, LAMBDA w :
                     w.points >= RandomizeMinPoints /\ ~Includes(used, w.id))
    IN  IF Len(fresh) >= 2 THEN fresh ELSE roster

\* the segments that lines 332-345 create, under the ids first + 1 .. first + n
RECURSIVE NewSegments(_, _, _, _)
NewSegments(table, first, i, segmentCount) ==
    IF i >= segmentCount THEN table
    ELSE NewSegments(
             TableAdd(table, first + i + 1,
                 [ name |-> <<"Segment ", ToString(i + 1)>>,
                   appearanceIds |-> <<>>,
                   type |-> IF i = segmentCount - 1 THEN "MAIN_EVENT" ELSE "DEFAULT",
                   rating |-> 0, complete |-> FALSE ]),
             first, i + 1, segmentCount)

\* the appearances that lines 398-405 and 500-507 store, under the ids
\* first + 1 .. first + n
RECURSIVE NewAppearances(_, _, _, _)
NewAppearances(table, first, i, apps) ==
    IF i >= Len(apps) THEN table
    ELSE NewAppearances(
             TableAdd(table, first + i + 1,
                 [ wrestlerId |-> apps[i + 1].wrestlerId,
                   groupId |-> apps[i + 1].groupId,
                   manager |-> apps[i + 1].manager,
                   cost |-> apps[i + 1].cost,
                   winner |-> FALSE, loser |-> FALSE ]),
             first, i + 1, apps)

\* the ids first + 1 .. first + n in the order they were given out
NewIds(first, n) == [i \in 1 .. n |-> first + i]

\* appearances.map(a => a.wrestler)
SegmentWrestlers(apps) == [i \in 1 .. Len(apps) |-> apps[i].wrestler]

\* appearances.map(a => a.wrestlerId)
WrestlerIdsOf(apps) == [i \in 1 .. Len(apps) |-> apps[i].wrestlerId]

\* generateAppearances has returned and its result was read: its parameters
\* and locals are gone
GenFrameDropped ==
    /\ wrestlers' = <<>>
    /\ exclude' = <<>>
    /\ minPoints' = 40
    /\ config' = defaultConfig
    /\ availableWrestlers' = <<>>
    /\ actualCount' = 0
    /\ teamCount' = 0
    /\ wrestlersPerTeam' = 0
    /\ teamIndex' = 0
    /\ memberIndex' = 0
    /\ groupId' = 0
    /\ usedIds' = <<>>
    /\ appearances' = <<>>
    /\ mode' = "none"
    /\ preferredGender' = ""

\* an action of the production tools has ended: its parameters and locals
\* are gone
LoopFrameDropped ==
    /\ productionId' = 0
    /\ segments' = <<>>
    /\ segmentIndex' = 0
    /\ usedWrestlerIds' = <<>>
    /\ randomizedSegments' = <<>>
    /\ wrestlersCost' = 0
    /\ totalRating' = 0

\* the call generateAppearances({wrestlers, exclude, minPoints})
CallGenerateAppearances(roster, excluded, threshold) ==
    /\ wrestlers' = roster
    /\ exclude' = excluded
    /\ minPoints' = threshold
    /\ config' = defaultConfig
    /\ availableWrestlers' = <<>>
    /\ actualCount' = 0
    /\ teamCount' = 0
    /\ wrestlersPerTeam' = 0
    /\ teamIndex' = 0
    /\ memberIndex' = 0
    /\ groupId' = 0
    /\ usedIds' = <<>>
    /\ appearances' = <<>>
    /\ mode' = "none"
    /\ preferredGender' = ""
    /\ pc' = "gen_start"

\* the loop of randomizeProduction is entered
RandomizeLoopEntered(id, segmentIds) ==
    /\ productionId' = id
    /\ segments' = segmentIds
    /\ segmentIndex' = 0
    /\ usedWrestlerIds' = <<>>
    /\ randomizedSegments' = <<>>
    /\ callOutcome' = {}
    /\ pc' = "randomize_segment"
    /\ UNCHANGED <<wrestlersCost, totalRating>>

\* an action throws before it has written anything
ThrowsAtOnce(message) ==
    /\ callOutcome' = Threw(message)
    /\ LoopFrameDropped
    /\ UNCHANGED <<pc, storeVars>>

\* randomize_production, lines 307-363: up to the loop over the segments
RandomizeStart ==
    /\ ToolCall("randomize_production")
    /\ bookings < MaxBookings
    /\ bookings' = bookings + 1
    /\ \E id \in ProductionIdArgs : \E createSegments \in BOOLEAN :
         IF TableGet(productionTable, id) = {}
         THEN ThrowsAtOnce("Production not found")
         ELSE IF Len(ActiveWrestlers) < 2
         THEN ThrowsAtOnce("Not enough active wrestlers")
         ELSE LET production == productionTable[id]
                  existing == SegmentsOf(production.segmentIds)
                  segmentCount == Min(DefaultMaxSegments, Len(ActiveWrestlers) \div 2)
                  newSegmentIds == NewIds(autoId.Segment, segmentCount)
              IN  IF Len(existing) = 0 /\ createSegments
                  THEN /\ segmentTable' =
                             NewSegments(segmentTable, autoId.Segment, 0, segmentCount)
                       /\ autoId' = [autoId EXCEPT !.Segment = @ + segmentCount]
                       /\ productionTable' = TableUpdate(productionTable, id,
                             [segmentIds |-> production.segmentIds \o newSegmentIds])
                       /\ RandomizeLoopEntered(id, newSegmentIds)
                       /\ UNCHANGED <<wrestlerTable, appearanceTable, brandTable>>
                  ELSE IF Len(existing) = 0
                  THEN ThrowsAtOnce("No segments found")
                  ELSE /\ RandomizeLoopEntered(id, existing)
                       /\ UNCHANGED storeVars
    /\ UNCHANGED <<genVars, generalVars>>

\* lines 365-389: one segment of the loop, up to the call of generateAppearances
RandomizeSegment ==
    /\ pc = "randomize_segment"
    /\ segmentIndex < Len(segments)
    /\ LET segment == segmentTable[segments[segmentIndex + 1]]
           existingAppearances == AppearancesOf(segment.appearanceIds)
       IN  appearanceTable' =
               [id \in DOMAIN appearanceTable \ { existingAppearances[i].id :
                                                    i \in 1 .. Len(existingAppearances) } |->
                    appearanceTable[id]]
    /\ CallGenerateAppearances(WrestlersPool(ActiveWrestlers, usedWrestlerIds),
                               LastFour(usedWrestlerIds), RandomizeMinPoints)
    /\ UNCHANGED <<wrestlerTable, segmentTable, productionTable, brandTable, autoId,
                   tool, callOutcome, storeBefore, toolCalls, bookings, loopVars,
                   generalVars>>

\* lines 390-436: generateAppearances has returned; the segment is booked, or
\* skipped when nobody was found
RandomizeBook ==
    /\ pc = "gen_done"
    /\ tool = "randomize_production"
    /\ IF Len(appearances) = 0
       THEN UNCHANGED <<appearanceTable, segmentTable, autoId, usedWrestlerIds,
                        randomizedSegments>>
       ELSE LET segmentId == segments[segmentIndex + 1]
                newAppearanceIds == NewIds(autoId.Appearance, Len(appearances))
            IN  /\ appearanceTable' =
                       NewAppearances(appearanceTable, autoId.Appearance, 0, appearances)
                /\ autoId' = [autoId EXCEPT !.Appearance = @ + Len(appearances)]
                /\ usedWrestlerIds' = usedWrestlerIds \o WrestlerIdsOf(appearances)
                /\ segmentTable' = TableUpdate(segmentTable, segmentId,
                       [ name |-> generateSegmentName(SegmentWrestlers(appearances)),
                         appearanceIds |-> newAppearanceIds,
                         complete |-> FALSE,
                         rating |-> 0 ])
                /\ randomizedSegments' = Append(randomizedSegments, segmentId)
    /\ segmentIndex' = segmentIndex + 1
    /\ GenFrameDropped
    /\ pc' = "randomize_segment"
    /\ UNCHANGED <<wrestlerTable, productionTable, brandTable, tool, productionId,
                   segments, wrestlersCost, totalRating, callOutcome, storeBefore,
                   toolCalls, bookings, generalVars>>

\* lines 438-455: the loop is over
RandomizeReturn ==
    /\ pc = "randomize_segment"
    /\ segmentIndex >= Len(segments)
    /\ callOutcome' = Returned
    /\ LoopFrameDropped
    /\ pc' = "tool_idle"
    /\ UNCHANGED <<storeVars, tool, storeBefore, toolCalls, bookings, genVars,
                   generalVars>>

\* create_random_segment, lines 457-474: up to the call of generateAppearances
CreateRandomSegmentStart ==
    /\ ToolCall("create_random_segment")
    /\ bookings < MaxBookings
    /\ bookings' = bookings + 1
    /\ \E id \in ProductionIdArgs :
         IF TableGet(productionTable, id) = {}
         THEN /\ ThrowsAtOnce("Production not found")
              /\ UNCHANGED genVars
         ELSE /\ productionId' = id
              /\ callOutcome' = {}
              /\ CallGenerateAppearances(ActiveWrestlers, <<>>, RandomSegmentMinPoints)
              /\ UNCHANGED <<storeVars, segments, segmentIndex, usedWrestlerIds,
                             randomizedSegments, wrestlersCost, totalRating>>
    /\ UNCHANGED generalVars

\* lines 476-533: generateAppearances has returned
CreateRandomSegmentBook ==
    /\ pc = "gen_done"
    /\ tool = "create_random_segment"
    /\ IF Len(appearances) = 0
       THEN /\ callOutcome' = Threw("No suitable wrestlers found for random segment")
            /\ UNCHANGED <<appearanceTable, segmentTable, productionTable, autoId>>
       ELSE LET segmentId == autoId.Segment + 1
                appearanceIds == NewIds(autoId.Appearance, Len(appearances))
            IN  /\ segmentTable' = TableAdd(segmentTable, segmentId,
                       [ name |-> generateSegmentName(SegmentWrestlers(appearances)),
                         appearanceIds |-> appearanceIds,
                         type |-> "DEFAULT",
                         rating |-> 0,
                         complete |-> FALSE ])
                /\ appearanceTable' =
                       NewAppearances(appearanceTable, autoId.Appearance, 0, appearances)
                /\ autoId' = [autoId EXCEPT !.Segment = @ + 1,
                                            !.Appearance = @ + Len(appearances)]
                /\ productionTable' = TableUpdate(productionTable, productionId,
                       [segmentIds |->
                            Append(productionTable[productionId].segmentIds, segmentId)])
                /\ callOutcome' = Returned
    /\ GenFrameDropped
    /\ LoopFrameDropped
    /\ pc' = "tool_idle"
    /\ UNCHANGED <<wrestlerTable, brandTable, tool, storeBefore, toolCalls, bookings,
                   generalVars>>

----------------------------------------------------------------------------
(* production-tools.ts: simulate_production, one step per segment *)

\* simulateMatch(appearances) as a function of its draw
SimulatedAppearances(apps, r) ==
    IF Decisive(GroupIds(apps))
    THEN [i \in 1 .. Len(apps) |-> Label(apps[i], WinningGroup(apps, selectWinner(apps, r)))]
    ELSE apps

\* lines 86-91: { ...appearance, wrestler }, wrestler undefined when the
\* record is gone
WithWrestler(appearance) ==
    IF appearance.wrestlerId \in DOMAIN wrestlerTable
    THEN Merge(appearance, [wrestler |-> wrestlerTable[appearance.wrestlerId]])
    ELSE appearance

\* a segment cost taken from what the wrestlers cost now
RECURSIVE SegmentCostCurrent(_)
SegmentCostCurrent(apps) ==
    IF apps = <<>> THEN 0
    ELSE (IF Head(apps).wrestlerId \in DOMAIN wrestlerTable
          THEN CostOrZero(wrestlerTable[Head(apps).wrestlerId])
          ELSE 0)
         + SegmentCostCurrent(Tail(apps))

\* line 94: appearances.reduce((sum, appearance) => sum + appearance.cost, 0)
RECURSIVE SegmentCost(_)
SegmentCost(apps) ==
    IF apps = <<>> THEN 0 ELSE Head(apps).cost + SegmentCost(Tail(apps))

\* calculateSegmentRating(appearances).score, in hundredths
SegmentRating(apps) == IF TooFewToRate(apps) THEN 0 ELSE FinalScore(RawScore(apps))

\* Math.round of a number of hundredths that is not negative
RoundHundredths(s) == (s + 50) \div 100

\* lines 112-123: what a result writes to the wrestler
ResultUpdates(wrestler, winner, loser) ==
    [ wins |-> wrestler.wins + (IF winner THEN 1 ELSE 0),
      losses |-> wrestler.losses + (IF loser THEN 1 ELSE 0),
      streak |-> IF winner THEN wrestler.streak + 1 ELSE 0,
      morale |-> Min(100, wrestler.morale + (IF winner THEN 5 ELSE -2)),
      popularity |-> Min(100, wrestler.popularity + (IF winner THEN 2 ELSE -1)) ]

\* lines 104-126: the writes of the loop from position i on; the loop stops
\* with a TypeError at a labelled appearance whose wrestler is undefined,
\* after the appearance itself has been written
RECURSIVE ApplyResults(_, _, _)
ApplyResults(simulated, i, s) ==
    IF i > Len(simulated) THEN s
    ELSE LET appearance == simulated[i]
             written == TableUpdate(s.Appearance, appearance.id,
                            [winner |-> appearance.winner, loser |-> appearance.loser])
         IN  IF ~(appearance.winner \/ appearance.loser)
             THEN ApplyResults(simulated, i + 1, [s EXCEPT !.Appearance = written])
             ELSE IF ~HasWrestler(appearance)
             THEN [s EXCEPT !.Appearance = written, !.threw = TRUE]
             ELSE ApplyResults(simulated, i + 1,
                      [s EXCEPT !.Appearance = written,
                                !.Wrestler = TableUpdate(s.Wrestler, appearance.wrestler.id,
                                    ResultUpdates(appearance.wrestler, appearance.winner,
                                                  appearance.loser))])

\* [...new Set(ids)]: the first occurrence of each id, in order
RECURSIVE Distinct(_)
Distinct(ids) ==
    IF ids = <<>> THEN <<>>
    ELSE LET front == Distinct(SubSeq(ids, 1, Len(ids) - 1))
             last == ids[Len(ids)]
         IN  IF Includes(front, last) THEN front ELSE Append(front, last)

\* lines 156-165: the wrestlers of the production that still exist
ProductionWrestlers(segmentIds) ==
    LET booked == SelectSeq(ToArray(appearanceTable), LAMBDA a :
                      \E i \in 1 .. Len(segmentIds) :
                          Includes(segmentTable[segmentIds[i]].appearanceIds, a.id))
        allWrestlerIds == Distinct(WrestlerIdsOf(booked))
        found == SelectSeq(allWrestlerIds, LAMBDA id : id \in DOMAIN wrestlerTable)
    IN  [i \in 1 .. Len(found) |-> wrestlerTable[found[i]]]

\* the default parameters of calculateAttendance's caller, calculateRevenue
\* and calculateViewership
BaseAttendance == 5000
TicketPrice == 50
MerchMultiplier == <<15, 1>>
TvMultiplier == <<7, 2>>

\* simulate_production, lines 57-76: up to the loop over the segments
SimulateStart ==
    /\ ToolCall("simulate_production")
    /\ \E id \in ProductionIdArgs :
         IF TableGet(productionTable, id) = {}
         THEN ThrowsAtOnce("Production not found")
         ELSE IF productionTable[id].complete
         THEN ThrowsAtOnce("Production is already complete")
         ELSE /\ productionId' = id
              /\ segments' = SegmentsOf(productionTable[id].segmentIds)
              /\ segmentIndex' = 0
              /\ wrestlersCost' = 0
              /\ totalRating' = 0
              /\ callOutcome' = {}
              /\ pc' = "simulate_segment"
              /\ UNCHANGED <<storeVars, usedWrestlerIds, randomizedSegments>>
    /\ UNCHANGED <<bookings, genVars, generalVars>>

\* lines 78-152: one segment of the loop
SimulateSegment ==
    /\ pc = "simulate_segment"
    /\ segmentIndex < Len(segments)
    /\ LET segment == segmentTable[segments[segmentIndex + 1]]
           stored == AppearancesOf(segment.appearanceIds)
           appearancesWithWrestlers == [i \in 1 .. Len(stored) |-> WithWrestler(stored[i])]
           segmentRating == SegmentRating(appearancesWithWrestlers)
       IN  IF segment.complete
           THEN /\ segmentIndex' = segmentIndex + 1
                /\ UNCHANGED <<pc, wrestlerTable, appearanceTable, segmentTable,
                               wrestlersCost, totalRating, callOutcome, productionId,
                               segments>>
           ELSE \E r \in Rand :
                  LET simulatedAppearances ==
                          SimulatedAppearances(appearancesWithWrestlers, r)
                      after == ApplyResults(simulatedAppearances, 1,
                                   [ Appearance |-> appearanceTable,
                                     Wrestler |-> wrestlerTable, threw |-> FALSE ])
                  IN  /\ appearanceTable' = after.Appearance
                      /\ wrestlerTable' = after.Wrestler
                      /\ IF after.threw
                         THEN /\ callOutcome' =
                                    Threw("TypeError: Cannot read properties of undefined")
                              /\ pc' = "tool_idle"
                              /\ productionId' = 0
                              /\ segments' = <<>>
                              /\ segmentIndex' = 0
                              /\ wrestlersCost' = 0
                              /\ totalRating' = 0
                              /\ UNCHANGED segmentTable
                         ELSE /\ wrestlersCost' = wrestlersCost + SegmentCost(stored)
                              /\ totalRating' = totalRating + segmentRating
                              /\ segmentTable' = TableUpdate(segmentTable, segment.id,
                                     [ complete |-> TRUE,
                                       rating |-> RoundHundredths(segmentRating) ])
                              /\ segmentIndex' = segmentIndex + 1
                              /\ UNCHANGED <<pc, callOutcome, productionId, segments>>
    /\ UNCHANGED <<productionTable, brandTable, autoId, tool, usedWrestlerIds,
                   randomizedSegments, storeBefore, toolCalls, bookings, genVars,
                   generalVars>>

\* lines 155-210: the show's results are stored
SimulateFinish ==
    /\ pc = "simulate_segment"
    /\ segmentIndex >= Len(segments)
    /\ LET attendance == calculateAttendance(ProductionWrestlers(segments), BaseAttendance)
           revenue == calculateRevenue(attendance, TicketPrice, MerchMultiplier)
           viewers == calculateViewership(attendance, TvMultiplier)
       IN  productionTable' = TableUpdate(productionTable, productionId,
               [ complete |-> TRUE,
                 wrestlersCost |-> wrestlersCost,
                 segmentsCost |-> 0,
                 attendanceIncome |-> revenue.attendanceIncome,
                 merchIncome |-> revenue.merchIncome,
                 attendance |-> attendance,
                 viewers |-> viewers,
                 step |-> 100 ])
    /\ callOutcome' = Returned
    /\ LoopFrameDropped
    /\ pc' = "tool_idle"
    /\ UNCHANGED <<wrestlerTable, appearanceTable, segmentTable, brandTable, autoId,
                   tool, storeBefore, toolCalls, bookings, genVars, generalVars>>

----------------------------------------------------------------------------
(* The tool calls of one show: the database starts with the demo wrestlers  *)
(* (part_005), and the tools are called one after the other                 *)

\* the names of the demo wrestlers, and two more
SeedNames ==
    << "John Cena", "Roman Reigns", "Becky Lynch", "Seth Rollins", "Bayley", "Edge",
       "Kane", "Sting" >>

\* the record the demo stores for the i-th wrestler
SeedWrestler(i) ==
    [ id |-> i, name |-> SeedNames[i], active |-> TRUE, points |-> 50,
      gender |-> "MALE", cost |-> 100, morale |-> 50, popularity |-> 0,
      stamina |-> 50, charisma |-> 50, damage |-> 0, alignment |-> "NEUTRAL",
      wins |-> 0, losses |-> 0, streak |-> 0 ]

\* the table of the first n demo wrestlers
SeedTable(n) == [i \in 1 .. n |-> SeedWrestler(i)]

\* a database that holds the first n demo wrestlers and nothing else
SeededStore(n) ==
    /\ wrestlerTable = SeedTable(n)
    /\ appearanceTable = <<>>
    /\ segmentTable = <<>>
    /\ productionTable = <<>>
    /\ brandTable = <<>>
    /\ autoId = [Wrestler |-> n, Appearance |-> 0, Segment |-> 0, Production |-> 0,
                 Brand |-> 0]

\* no tool has been called
ToolsIdle ==
    /\ tool = ""
    /\ productionId = 0
    /\ segments = <<>>
    /\ segmentIndex = 0
    /\ usedWrestlerIds = <<>>
    /\ randomizedSegments = <<>>
    /\ wrestlersCost = 0
    /\ totalRating = 0
    /\ callOutcome = {}
    /\ storeBefore = <<>>
    /\ toolCalls = 0
    /\ bookings = 0
    /\ brandCalls = <<>>

InitShow ==
    /\ pc = "tool_idle"
    /\ \E n \in 2 .. MaxStoreRoster : SeededStore(n)
    /\ ToolsIdle
    /\ GenIdle
    /\ MatchIdle
    /\ RatingIdle
    /\ CalcIdle
    /\ NameIdle
    /\ WrapIdle

NextShow ==
    \/ BoostWrestler
    \/ PenalizeWrestler
    \/ UpdateWrestler
    \/ DeleteWrestler
    \/ CreateProduction
    \/ RandomizeStart
    \/ RandomizeSegment
    \/ RandomizeBook
    \/ RandomizeReturn
    \/ CreateRandomSegmentStart
    \/ CreateRandomSegmentBook
    \/ SimulateStart
    \/ SimulateSegment
    \/ SimulateFinish
    \/ NextGen

SpecShow == InitShow /\ [][NextShow]_vars

----------------------------------------------------------------------------
(* One run of randomize_production on a production that has no segments yet *)

\* number of wrestlers that are in the database when the run starts
MaxRandomizeRoster == 6

\* the demo wrestlers and one production, created by create_production
InitRandomize ==
    /\ pc = "tool_idle"
    /\ \E n \in 2 .. MaxRandomizeRoster :
         /\ wrestlerTable = SeedTable(n)
         /\ autoId = [Wrestler |-> n, Appearance |-> 0, Segment |-> 0, Production |-> 1,
                      Brand |-> 0]
    /\ appearanceTable = <<>>
    /\ segmentTable = <<>>
    /\ productionTable = TableAdd(<<>>, 1, defaultProduction)
    /\ brandTable = <<>>
    /\ ToolsIdle
    /\ GenIdle
    /\ MatchIdle
    /\ RatingIdle
    /\ CalcIdle
    /\ NameIdle
    /\ WrapIdle

NextRandomize ==
    \/ RandomizeStart
    \/ RandomizeSegment
    \/ RandomizeBook
    \/ RandomizeReturn
    \/ NextGen

SpecRandomize == InitRandomize /\ [][NextRandomize]_vars

----------------------------------------------------------------------------
(* brand-tools.ts: two update_brand_balance calls in flight at once.  A call  *)
(* runs up to its next await in one step; between two steps of a call the    *)
(* other call may run.                                                       *)

\* the calls in flight
BrandCalls == {1, 2}

\* the ids the calls are made with: the brand, and an id no brand has
BrandIdArgs == {1, 2}

\* the amounts the calls are made with: a debit and a credit
AmountArgs == {-300, 500}

\* createBrand: balance: 1000000
InitialBalance == 1000000

\* the brand the demo creates, with createBrand's balance
SeedBrand == [id |-> 1, name |-> "Raw", balance |-> InitialBalance]

brandOtherVars ==
    <<wrestlerTable, appearanceTable, segmentTable, productionTable, autoId, tool,
      storeBefore, toolCalls, bookings, callOutcome, loopVars, genVars, matchVars,
      ratingVars, calcVars, nameVars, wrapVars>>

\* line 35: db.Brand.get(id) is called, and reads the record
BrandGet(c) ==
    /\ brandCalls[c].pc = "start"
    /\ brandCalls' = [brandCalls EXCEPT ![c].brand = TableGet(brandTable, brandCalls[c].id),
                                        ![c].pc = "got"]
    /\ UNCHANGED <<pc, brandTable, brandOtherVars>>

\* lines 36-41: the await of line 35 is over; the call throws, or calls
\* db.Brand.update with the balance it read plus the amount
BrandUpdate(c) ==
    /\ brandCalls[c].pc = "got"
    /\ IF brandCalls[c].brand = {}
       THEN /\ brandCalls' = [brandCalls EXCEPT ![c].outcome = Threw("Brand not found"),
                                               ![c].pc = "done"]
            /\ UNCHANGED brandTable
       ELSE LET brand == CHOOSE b \in brandCalls[c].brand : TRUE
                newBalance == brand.balance + brandCalls[c].amount
            IN  /\ brandTable' = TableUpdate(brandTable, brandCalls[c].id,
                                            [balance |-> newBalance])
                /\ brandCalls' = [brandCalls EXCEPT ![c].pc = "updated"]
    /\ UNCHANGED <<pc, brandOtherVars>>

\* line 43: db.Brand.get(id) is called again
BrandReget(c) ==
    /\ brandCalls[c].pc = "updated"
    /\ brandCalls' = [brandCalls EXCEPT
                          ![c].updatedBrand = TableGet(brandTable, brandCalls[c].id),
                          ![c].pc = "regot"]
    /\ UNCHANGED <<pc, brandTable, brandOtherVars>>

\* lines 45-53: the call returns updatedBrand
BrandReturn(c) ==
    /\ brandCalls[c].pc = "regot"
    /\ brandCalls' = [brandCalls EXCEPT ![c].outcome = Returned, ![c].pc = "done"]
    /\ UNCHANGED <<pc, brandTable, brandOtherVars>>

\* the handlers of lines 209-212 have been entered for both calls
InitBrand ==
    /\ pc = "brand_calls"
    /\ wrestlerTable = <<>>
    /\ appearanceTable = <<>>
    /\ segmentTable = <<>>
    /\ productionTable = <<>>
    /\ brandTable = TableAdd(<<>>, 1, SeedBrand)
    /\ autoId = [Wrestler |-> 0, Appearance |-> 0, Segment |-> 0, Production |-> 0,
                 Brand |-> 1]
    /\ tool = "update_brand_balance"
    /\ productionId = 0
    /\ segments = <<>>
    /\ segmentIndex = 0
    /\ usedWrestlerIds = <<>>
    /\ randomizedSegments = <<>>
    /\ wrestlersCost = 0
    /\ totalRating = 0
    /\ callOutcome = {}
    /\ storeBefore = <<>>
    /\ toolCalls = 0
    /\ bookings = 0
    /\ \E ids \in [BrandCalls -> BrandIdArgs] : \E amounts \in [BrandCalls -> AmountArgs] :
         brandCalls = [c \in BrandCalls |->
                          [ pc |-> "start", id |-> ids[c], amount |-> amounts[c],
                            brand |-> {}, updatedBrand |-> {}, outcome |-> {} ]]
    /\ GenIdle
    /\ MatchIdle
    /\ RatingIdle
    /\ CalcIdle
    /\ NameIdle
    /\ WrapIdle

NextBrand ==
    \E c \in BrandCalls :
        \/ BrandGet(c)
        \/ BrandUpdate(c)
        \/ BrandReget(c)
        \/ BrandReturn(c)

SpecBrand == InitBrand /\ [][NextBrand]_vars

----------------------------------------------------------------------------
(* Properties of generateAppearances, under SpecGen *)

\* the positions of the roster that are active, have points >= minPoints and an
\* id that is not in exclude
EligiblePositions ==
    { i \in 1 .. Len(wrestlers) :
        /\ wrestlers[i].active
        /\ wrestlers[i].points >= minPoints
        /\ \A j \in 1 .. Len(exclude) : exclude[j] # wrestlers[i].id }

GenReturned == pc = "gen_done"

\* C1: with fewer than 2 eligible performers generateAppearances returns an
\* empty list without raising an error, whatever is drawn: the call goes from
\* its start straight to its return and never books anyone.
C1_FewEligibleReturnsEmpty ==
    Cardinality(EligiblePositions) < 2 =>
        /\ pc \in {"gen_start", "gen_done"}
        /\ appearances = <<>>

\* the call has returned for a roster of several performers of which exactly
\* one is eligible
C1_Witness ==
    /\ GenReturned
    /\ Len(wrestlers) >= 2
    /\ Cardinality(EligiblePositions) = 1

\* C2: the list built by one generateAppearances call never holds the same
\* wrestlerId twice, in individual mode and in team mode.
C2_NoPerformerTwice ==
    \A i, j \in 1 .. Len(appearances) :
        i # j => appearances[i].wrestlerId # appearances[j].wrestlerId

\* a team match of four has been returned
C2_Witness ==
    /\ GenReturned
    /\ mode = "team"
    /\ Len(appearances) = 4

\* C3: every appearance refers to a performer of the roster that is active,
\* has points >= minPoints and is not excluded.
C3_OnlyEligibleBooked ==
    \A k \in 1 .. Len(appearances) :
        \E i \in EligiblePositions :
            /\ wrestlers[i].id = appearances[k].wrestlerId
            /\ wrestlers[i] = appearances[k].wrestler

\* a list has been returned from a roster that also holds a performer who is
\* inactive or below minPoints and an excluded one who is otherwise eligible
C3_Witness ==
    /\ GenReturned
    /\ appearances # <<>>
    /\ \E i \in 1 .. Len(wrestlers) :
         ~wrestlers[i].active \/ wrestlers[i].points < minPoints
    /\ \E i \in 1 .. Len(wrestlers) :
         /\ wrestlers[i].active
         /\ wrestlers[i].points >= minPoints
         /\ Includes(exclude, wrestlers[i].id)

\* C4: with the default configuration and at least 2 eligible performers the
\* returned list is not empty, whatever count, gender and team mode are drawn.
C4_EnoughEligibleReturnsSome ==
    (GenReturned /\ config = defaultConfig /\ Cardinality(EligiblePositions) >= 2)
        => appearances # <<>>

\* the preferred gender had too few performers, the whole pool was used: two
\* performers of different gender have been returned
C4_Witness ==
    /\ GenReturned
    /\ config = defaultConfig
    /\ Cardinality(EligiblePositions) = 2
    /\ Len(appearances) = 2
    /\ appearances[1].wrestler.gender # appearances[2].wrestler.gender

----------------------------------------------------------------------------
(* Properties of simulateMatch, under SpecMatch *)

MatchReturned == pc = "match_done"

DistinctGroups == { matchInput[i].groupId : i \in 1 .. Len(matchInput) }

\* C5: with exactly one distinct groupId simulateMatch returns the appearances
\* with every winner and loser flag as it was on input.
C5_SingleGroupUnchanged ==
    (MatchReturned /\ Cardinality(DistinctGroups) = 1) => matchResult = matchInput

\* two fresh competitors of the same group have been through simulateMatch
C5_Witness ==
    /\ MatchReturned
    /\ Len(matchInput) = 2
    /\ Cardinality(DistinctGroups) = 1
    /\ \A i \in 1 .. 2 :
         /\ "wrestler" \in DOMAIN matchInput[i]
         /\ ~matchInput[i].manager
         /\ ~matchInput[i].winner
         /\ ~matchInput[i].loser

\* C6: with at least 2 distinct groupIds and at least 1 non-manager appearance,
\* the result has winner = TRUE exactly on the appearances of the group of the
\* selected winning performer and loser = TRUE exactly on all the others, and
\* the winning group has a member.
C6_WinningGroupLabelled ==
    ( /\ MatchReturned
      /\ Cardinality(DistinctGroups) >= 2
      /\ \E i \in 1 .. Len(matchInput) : ~matchInput[i].manager )
    =>
    /\ Len(matchResult) = Len(matchInput)
    /\ \E s \in 1 .. Len(matchInput) :
         /\ ~matchInput[s].manager
         /\ matchInput[s].wrestlerId \in winnerId
         /\ \A i \in 1 .. Len(matchResult) :
              /\ matchResult[i].winner = (matchInput[i].groupId = matchInput[s].groupId)
              /\ matchResult[i].loser = (matchInput[i].groupId # matchInput[s].groupId)

\* C7: two non-manager appearances with attached performers, each in its own
\* group, come back as a list of two with exactly one winner that is no loser
\* and one loser that is no winner, for every draw.
C7_TwoCompetitorsOneWinner ==
    ( /\ MatchReturned
      /\ Len(matchInput) = 2
      /\ matchInput[1].groupId # matchInput[2].groupId
      /\ \A i \in 1 .. 2 : "wrestler" \in DOMAIN matchInput[i] /\ ~matchInput[i].manager )
    =>
    /\ Len(matchResult) = 2
    /\ \E i, j \in 1 .. 2 :
         /\ i # j
         /\ matchResult[i].winner /\ ~matchResult[i].loser
         /\ matchResult[j].loser /\ ~matchResult[j].winner

\* two competitors of equal weight on opposite sides, and the second one won
C7_Witness ==
    /\ MatchReturned
    /\ Len(matchInput) = 2
    /\ matchInput[1].groupId # matchInput[2].groupId
    /\ \A i \in 1 .. 2 : "wrestler" \in DOMAIN matchInput[i] /\ ~matchInput[i].manager
    /\ matchInput[1].wrestler = matchInput[2].wrestler
    /\ matchResult[2].winner

----------------------------------------------------------------------------
(* Properties of calculateSegmentRating, under SpecRating; scores in hundredths *)

RatingReturned == pc = "rating_done"

\* C8: fewer than 2 appearances give score 0 and an empty history, whatever the
\* performer's attributes.
C8_FewerThanTwoScoreZero ==
    (RatingReturned /\ Len(ratingInput) < 2) =>
        /\ ratingResult.score = 0
        /\ ratingResult.history = <<>>

\* a single appearance of the performer with every attribute 100 has been rated
C8_Witness ==
    /\ RatingReturned
    /\ Len(ratingInput) = 1
    /\ "wrestler" \in DOMAIN ratingInput[1]
    /\ "points" \in DOMAIN ratingInput[1].wrestler
    /\ ratingInput[1].wrestler.points = 100

\* the two performers of the low-point test, each on their own side
LowPointPair ==
    << [wrestlerId |-> 1, groupId |-> 1, manager |-> FALSE, cost |-> 0,
        winner |-> FALSE, loser |-> FALSE, wrestler |-> RatingLowA],
       [wrestlerId |-> 2, groupId |-> 2, manager |-> FALSE, cost |-> 0,
        winner |-> FALSE, loser |-> FALSE, wrestler |-> RatingLowB] >>

\* C9: the returned score is never negative: it is the accumulated rule total
\* (over 100) when that total is positive and 0 when it is not; the two
\* all-NEUTRAL low-attribute performers score exactly 0.
C9_ScoreFlooredAtZero ==
    RatingReturned =>
        /\ ratingResult.score >= 0
        /\ (rawScore > 0 => ratingResult.score = rawScore)
        /\ (rawScore <= 0 => ratingResult.score = 0)
        /\ (ratingInput = LowPointPair => ratingResult.score = 0)

\* a list of at least two whose rule total is negative has been rated
C9_Witness ==
    /\ RatingReturned
    /\ Len(ratingInput) >= 2
    /\ rawScore < 0

\* performers A and B of the scenario, each on their own side
ScenarioPair ==
    << [wrestlerId |-> 1, groupId |-> 1, manager |-> FALSE, cost |-> 0,
        winner |-> FALSE, loser |-> FALSE, wrestler |-> RatingA],
       [wrestlerId |-> 2, groupId |-> 2, manager |-> FALSE, cost |-> 0,
        winner |-> FALSE, loser |-> FALSE, wrestler |-> RatingB] >>

\* C10: for performers A and B the score is strictly positive and none of the
\* subtracting rules (zero or low points, zero or low morale, low or middling
\* popularity, same alignment, zero or low charisma) fires.
C10_ScenarioPositiveNoPenalty ==
    (RatingReturned /\ ratingInput = ScenarioPair) =>
        /\ ratingResult.score > 0
        /\ Len(ratingResult.history) = 1
        /\ LET h == ratingResult.history[1]
           IN  /\ ~h.hasZeroPoints /\ ~h.hasLowPoints
               /\ ~h.hasZeroMorale /\ ~h.hasLowMorale
               /\ ~h.hasLowPopularity /\ ~h.hasMiddlingPopularity
               /\ ~h.allHasSameAlignment
               /\ ~h.hasZeroCharisma /\ ~h.hasLowCharisma

\* A and B have been rated
C10_Witness == RatingReturned /\ ratingInput = ScenarioPair

----------------------------------------------------------------------------
(* Properties of calculateAttendance, calculateRevenue and                 *)
(* calculateViewership, under SpecCalc                                     *)

\* the claimed attendance before the floor, for a roster that is not empty:
\* base * (1 + 0.3 * stars) * (1 + avgPopularity / 100)
\*      * (1 + (avgPoints - 50) / 100)
\* with the stars and the averages taken over the whole roster
ClaimedAttendance(ws, base) ==
    LET n == Len(ws)
        stars == Cardinality({ i \in 1 .. n : ws[i].points >= 90 })
        sumPopularity == SumSeq([i \in 1 .. n |-> ws[i].popularity])
        sumPoints == SumSeq([i \in 1 .. n |-> ws[i].points])
    IN  RatMul(RatMul(RatMul(Rat(base, 1), Rat(10 + 3 * stars, 10)),
                      Rat(100 * n + sumPopularity, 100 * n)),
               Rat(50 * n + sumPoints, 100 * n))

\* r is the floor of the fraction x
IsFloorOf(r, x) == r * x[2] <= x[1] /\ x[1] < (r + 1) * x[2]

InRange(ws) ==
    \A j \in 1 .. Len(ws) :
        /\ ws[j].points \in 0 .. 100
        /\ ws[j].popularity \in 0 .. 100

\* C13: for a roster that is not empty, with points and popularity in
\* 0 .. 100, and a base >= 0, calculateAttendance returns a value >= 0
\* although it applies no clamp.
C13_AttendanceNotNegative ==
    \A i \in 1 .. Len(attendanceLog) :
        LET call == attendanceLog[i]
        IN  ( /\ Len(call.wrestlers) > 0
              /\ InRange(call.wrestlers)
              /\ call.baseAttendance >= 0 )
            => call.result >= 0

\* a roster with average points below 50 drew fewer than the base, and not
\* fewer than 0
C13_Witness ==
    \E i \in 1 .. Len(attendanceLog) :
        LET call == attendanceLog[i]
        IN  /\ Len(call.wrestlers) > 0
            /\ SumField(call.wrestlers, "points") < 50 * Len(call.wrestlers)
            /\ call.result < call.baseAttendance
            /\ call.result >= 0

\* C14: calculateRevenue returns attendanceIncome = a * ticketPrice,
\* merchIncome = floor(a * merchMultiplier) and totalRevenue equal to the sum
\* of the two; for a = 0 all three are 0.
C14_RevenueAddsUp ==
    \A i \in 1 .. Len(revenueLog) :
        LET call == revenueLog[i]
            r == call.result
        IN  /\ r.attendanceIncome = call.attendance * call.ticketPrice
            /\ IsFloorOf(r.merchIncome,
                         Rat(call.attendance * call.merchMultiplier[1], call.merchMultiplier[2]))
            /\ r.totalRevenue = r.attendanceIncome + r.merchIncome
            /\ (call.attendance = 0 =>
                    r.attendanceIncome = 0 /\ r.merchIncome = 0 /\ r.totalRevenue = 0)

\* the revenue of an odd head count with the merchandise multiplier 1.5 has
\* been computed: the floor cuts a half off
C14_Witness ==
    \E i \in 1 .. Len(revenueLog) :
        LET call == revenueLog[i]
        IN  /\ call.attendance = 3
            /\ call.merchMultiplier = <<3, 2>>
            /\ call.result.merchIncome = 4

\* C15: calculateViewership(0) is 0, and for a fixed tvMultiplier (the
\* defaults and tests pass 2.0, 3.5 and 4.5) a1 <= a2 implies
\* calculateViewership(a1, m) <= calculateViewership(a2, m).
C15_ViewershipMonotone ==
    /\ \A i \in 1 .. Len(viewershipLog) :
         viewershipLog[i].attendance = 0 => viewershipLog[i].result = 0
    /\ \A i, j \in 1 .. Len(viewershipLog) :
         ( /\ viewershipLog[i].tvMultiplier = viewershipLog[j].tvMultiplier
           /\ viewershipLog[i].attendance <= viewershipLog[j].attendance )
         => viewershipLog[i].result <= viewershipLog[j].result

\* two calls with the default multiplier 3.5: the head count 0, and two head
\* counts one apart whose results the floor keeps different
C15_Witness ==
    /\ Len(viewershipLog) = 2
    /\ viewershipLog[1].tvMultiplier = <<7, 2>>
    /\ viewershipLog[2].tvMultiplier = <<7, 2>>
    /\ viewershipLog[1].attendance = 0
    /\ viewershipLog[2].attendance = 1
    /\ viewershipLog[2].result = 3

----------------------------------------------------------------------------
(* Properties of generateSegmentName, under SpecName *)

NameReturned == pc = "name_done"

\* the string holds the piece
Contains(str, piece) == \E i \in 1 .. Len(str) : str[i] = piece

\* the string holds the two pieces one right after the other
ContainsPair(str, first, second) ==
    \E i \in 1 .. Len(str) - 1 : str[i] = first /\ str[i + 1] = second

\* the string holds the name of the wrestler at every position of the set
ContainsNames(str, ws, positions) ==
    \A i \in positions : Contains(str, ws[i].name)

\* C16: generateSegmentName returns exactly "Untitled Segment" for 0 names;
\* for 1 name a string with that name; for 2 names both names joined by
\* "vs"; for 3 names "Triple Threat" and all 3 names; for 4 names
\* "Fatal Four-Way" and all 4 names; for n >= 5 names "n-Way Match" and the
\* first two names.
C16_SegmentNameByCount ==
    NameReturned =>
        LET n == Len(nameInput)
            s == segmentName
        IN  /\ n = 0 => s = <<"Untitled Segment">>
            /\ n = 1 => ContainsNames(s, nameInput, {1})
            /\ n = 2 => s = <<nameInput[1].name, " vs ", nameInput[2].name>>
            /\ n = 3 => Contains(s, "Triple Threat: ") /\ ContainsNames(s, nameInput, 1 .. 3)
            /\ n = 4 => Contains(s, "Fatal Four-Way: ") /\ ContainsNames(s, nameInput, 1 .. 4)
            /\ n >= 5 => /\ ContainsPair(s, ToString(n), "-Way Match: ")
                         /\ ContainsNames(s, nameInput, 1 .. 2)

\* a list of five whose first two names differ has been named
C16_Witness ==
    /\ NameReturned
    /\ Len(nameInput) = 5
    /\ nameInput[1].name # nameInput[2].name

----------------------------------------------------------------------------
(* Properties of createActionWrapper and the tool handlers, under SpecWrap *)

\* C17: a function made by createActionWrapper never rejects: it resolves to
\* {success: false, error: message, operation} without data when the action
\* throws and to {success: true, data: result, operation} when the action
\* returns; and every tool handler returns the data on success and the string
\* "Error: <message>" on failure instead of throwing.
C17_HandlersNeverThrow ==
    /\ pc \in {"handler_resume", "handler_done"} =>
         \A outcome \in actionOutcome :
             /\ actionResult # {}
             /\ \A result \in actionResult :
                  /\ result.operation = Tools[toolName].operation
                  /\ outcome.kind = "returned" =>
                       /\ result.success
                       /\ result.data = outcome.data
                  /\ outcome.kind = "threw" =>
                       /\ ~result.success
                       /\ "data" \notin DOMAIN result
                       /\ result.error = IF outcome.error.isError
                                         THEN outcome.error.message
                                         ELSE outcome.error.text
    /\ pc = "handler_done" =>
         /\ handlerOutcome # {}
         /\ \A h \in handlerOutcome :
              /\ h.kind = "returned"
              /\ \A result \in actionResult :
                   IF result.success
                   THEN "data" \in DOMAIN h /\ h.data = result.data
                   ELSE "text" \in DOMAIN h /\ h.text = <<"Error: ", result.error>>

----------------------------------------------------------------------------
(* Properties of the two branches of generateAppearances, under SpecGen *)

\* the groupIds of the appearances built so far
BookedGroups == { appearances[i].groupId : i \in 1 .. Len(appearances) }

\* the appearances booked under the groupId g
TeamOf(g) == { i \in 1 .. Len(appearances) : appearances[i].groupId = g }

\* C18: when generateAppearances takes the team branch the returned
\* appearances form exactly 2 teams (2 distinct groupIds) of
\* floor(participantCount / 2) members each, for every drawn participant count.
C18_TeamBranchTwoTeams ==
    (GenReturned /\ mode = "team") =>
        /\ Cardinality(BookedGroups) = 2
        /\ \A g \in BookedGroups : Cardinality(TeamOf(g)) = actualCount \div 2

\* C19: in individual mode every appearance of the returned list has a groupId
\* of its own: there are as many distinct groupIds as appearances.
C19_IndividualGroupsDistinct ==
    mode = "individual" =>
        /\ \A i, j \in 1 .. Len(appearances) :
             i # j => appearances[i].groupId # appearances[j].groupId
        /\ Cardinality(BookedGroups) = Len(appearances)

\* three performers have been returned by the individual branch
C19_Witness ==
    /\ GenReturned
    /\ mode = "individual"
    /\ Len(appearances) = 3

\* the eligible performers of the preferred gender that was drawn
EligibleOfPreferredGender ==
    { i \in EligiblePositions : wrestlers[i].gender = preferredGender }

\* C20: the gender preference is soft: when at least as many eligible
\* performers have the preferred gender as the clamped participant count,
\* every returned appearance is of that gender; otherwise the whole filtered
\* pool is used and the call still returns the clamped participant count of
\* appearances, of any gender.
C20_GenderPreferenceSoft ==
    (GenReturned /\ preferredGender # "") =>
        /\ actualCount <= Cardinality(EligiblePositions)
        /\ IF Cardinality(EligibleOfPreferredGender) >= actualCount
           THEN \A i \in 1 .. Len(appearances) :
                    appearances[i].wrestler.gender = preferredGender
           ELSE /\ Len(availableWrestlers) = Cardinality(EligiblePositions)
                /\ Len(appearances) = actualCount

\* three eligible performers, one of them of the preferred gender, and a list
\* of the clamped count has been returned that holds the other gender as well
C20_Witness ==
    /\ GenReturned
    /\ preferredGender # ""
    /\ Cardinality(EligiblePositions) = 3
    /\ Cardinality(EligibleOfPreferredGender) = 1
    /\ actualCount >= 2
    /\ Len(appearances) = actualCount
    /\ \E i \in 1 .. Len(appearances) : appearances[i].wrestler.gender # preferredGender

----------------------------------------------------------------------------
(* The pool of the team branch, under SpecGen *)

\* the draws of selectRandomItem that the team branch is run on as a function:
\* the first and the last performer that is still available
PickDraws == {0, RandRes - 1}

\* the groupIds of a list of appearances, and the members booked under one
GroupsOf(apps) == { apps[i].groupId : i \in 1 .. Len(apps) }
MembersOf(apps, g) == { i \in 1 .. Len(apps) : apps[i].groupId = g }

\* a list of appearances that consists of two teams of unequal size
TwoUnequalTeams(apps) ==
    /\ Cardinality(GroupsOf(apps)) = 2
    /\ \E g, h \in GroupsOf(apps) :
         Cardinality(MembersOf(apps, g)) # Cardinality(MembersOf(apps, h))

\* C21 as stated: when generateAppearances is called there is a roster with
\* pairwise distinct ids, a configuration and a sequence of draws for which
\* its team branch returns two teams of unequal size.
C21_PoolCanRunOut ==
    pc = "gen_start" =>
    \E n \in 0 .. MaxRoster : \E k \in [1 .. n -> PerformerKinds] :
    \E ex \in Excludes : \E mp \in MinPointsArgs : \E cfg \in Configs :
        LET filtered == FilterAvailable(Roster(n, k), mp, ex)
        IN  /\ ~NotEnough(filtered)
            /\ \E rc, rg \in Rand :
                 LET count == Min(pickOption(cfg.itemCountConfig, rc), Len(filtered))
                     pool == GenderPool(filtered, pickOption(cfg.propertyConfig, rg), count)
                 IN  /\ UseTeams(TRUE, pool)
                     /\ \E ids \in [1 .. 2 -> IdDraws] :
                        \E picks \in [1 .. count -> PickDraws] :
                            TwoUnequalTeams(
                                TeamBranch(pool, count, [ids |-> ids, picks |-> picks]))

\* C21 as amended: in team mode the pool never runs out before a team is
\* filled (the break of line 167 is never taken), every team that is returned
\* has wrestlersPerTeam members, and no two returned teams differ in size.
C21_TeamPoolNeverRunsOut ==
    mode = "team" =>
        /\ (pc = "gen_member" /\ memberIndex < wrestlersPerTeam) =>
               Len(AvailableFor(availableWrestlers, usedIds)) > 0
        /\ GenReturned =>
               /\ Len(appearances) = teamCount * wrestlersPerTeam
               /\ ~TwoUnequalTeams(appearances)

\* the team branch has returned two teams that use up a pool of four
C21_Witness ==
    /\ GenReturned
    /\ mode = "team"
    /\ Len(availableWrestlers) = 4
    /\ Len(appearances) = 4
    /\ Cardinality(BookedGroups) = 2

----------------------------------------------------------------------------
(* simulateMatch without appearances, under SpecMatch *)

\* C22: simulateMatch called with zero appearances raises an error that
\* propagates to the caller: the call never reaches its return, neither with
\* an empty nor with an unchanged list.
C22_EmptyMatchRaises == ~(MatchReturned /\ Len(matchInput) = 0)

----------------------------------------------------------------------------
(* The weights of selectWinner, under SpecMatch *)

\* an attribute as the claim counts it: a missing one is 0
Counted(w, field) == IF field \in DOMAIN w THEN w[field] ELSE 0

\* the weight the claim states, in tenths: points of 0 or missing count as 1
ClaimedWeight(w) ==
    10 * (IF Counted(w, "points") = 0 THEN 1 ELSE Counted(w, "points"))
        + 5 * Counted(w, "morale") + 3 * Counted(w, "stamina")
        + 2 * (Counted(w, "popularity") + Counted(w, "charisma"))

\* the appearances that selectWinner chooses among
Competitors == WinnerItems(matchInput)

\* thresholds Math.random() * totalWeight can take, in tenths: 0 and the first
\* tenth above each partial sum of the weights, as far as they are in
\* [0, totalWeight)
Thresholds ==
    { t \in {0} \cup { TotalWeight(SubSeq(Competitors, 1, j)) + 1 :
                          j \in 0 .. Len(Competitors) } :
        t < TotalWeight(Competitors) }

\* C23: every non-manager appearance with an attached performer has the weight
\* points + 0.5 * morale + 0.3 * stamina + 0.2 * (popularity + charisma) with
\* points of 0 or missing counted as 1, which is at least 1; for each of them
\* there is a threshold in [0, totalWeight) at which selectWinner returns it;
\* and the winner that simulateMatch got is never a manager appearance.
C23_EveryCompetitorCanWin ==
    /\ \A i \in 1 .. Len(Competitors) :
         /\ Weight(Competitors[i].wrestler) = ClaimedWeight(Competitors[i].wrestler)
         /\ Weight(Competitors[i].wrestler) >= 10
         /\ \E t \in Thresholds :
              WinnerWalk(Competitors, 1, t * RandRes) = Competitors[i].wrestlerId
    /\ MatchReturned =>
         \A id \in winnerId : \A i \in 1 .. Len(matchInput) :
             matchInput[i].wrestlerId = id =>
                 HasWrestler(matchInput[i]) /\ ~matchInput[i].manager

\* a performer whose attributes are all 0 competed against a main eventer and a
\* manager in another group, and won
C23_Witness ==
    /\ MatchReturned
    /\ \E i, j, k \in 1 .. Len(matchInput) :
         /\ HasWrestler(matchInput[i]) /\ ~matchInput[i].manager
         /\ Weight(matchInput[i].wrestler) = 10
         /\ HasWrestler(matchInput[j]) /\ ~matchInput[j].manager
         /\ Weight(matchInput[j].wrestler) > 10
         /\ matchInput[j].groupId # matchInput[i].groupId
         /\ HasWrestler(matchInput[k]) /\ matchInput[k].manager
         /\ winnerId = {matchInput[i].wrestlerId}

----------------------------------------------------------------------------
(* The alignment rules of calculateSegmentRating, under SpecRating *)

\* every appearance has a performer whose alignment is FACE, HEEL or NEUTRAL
AllAligned ==
    \A i \in 1 .. Len(ratingInput) :
        AlignmentOf(ratingInput[i]) \in {"FACE", "HEEL", "NEUTRAL"}

\* the alignments that are present
Alignments == { AlignmentOf(ratingInput[i]) : i \in 1 .. Len(ratingInput) }

\* what the rules other than the alignment rules add to the raw score
OtherRules ==
    LET d == Diagnostics(ratingInput)
    IN  PointsScore(ratingInput, d) + MoraleScore(ratingInput, d)
        + PopularityScore(ratingInput, d) + CharismaScore(ratingInput, d)

\* what the alignment rules have added to the raw score of the call
AlignmentContribution == rawScore - OtherRules

\* C24: with two or more performers that are all FACE, HEEL or NEUTRAL, the
\* alignment rules add 50 for two distinct alignments, subtract 200 when all
\* share one alignment and add 50 when somebody is FACE or HEEL; the bonus for
\* mixed alignments and the penalty never apply together, so the raw score
\* gets +100 for a mixed list, -150 for an all-FACE or all-HEEL list and
\* -200 for an all-NEUTRAL list.
C24_AlignmentContribution ==
    (RatingReturned /\ Len(ratingInput) >= 2 /\ AllAligned) =>
        /\ AlignmentContribution =
               If(Cardinality(Alignments) >= 2, 50)
               - If(Cardinality(Alignments) = 1, 200)
               + If(Alignments \cap {"FACE", "HEEL"} # {}, 50)
        /\ ratingResult.history[1].allHasSameAlignment = (Cardinality(Alignments) = 1)
        /\ Cardinality(Alignments) >= 2 => AlignmentContribution = 100
        /\ Alignments \in {{"FACE"}, {"HEEL"}} => AlignmentContribution = 0 - 150
        /\ Alignments = {"NEUTRAL"} => AlignmentContribution = 0 - 200

\* a list that mixes NEUTRAL with one of FACE and HEEL, without the other, has
\* been rated
C24_Witness ==
    /\ RatingReturned
    /\ Len(ratingInput) >= 2
    /\ AllAligned
    /\ "NEUTRAL" \in Alignments
    /\ Cardinality(Alignments) = 2
    /\ AlignmentContribution = 100

----------------------------------------------------------------------------
(* Properties of the production tools, under SpecShow *)

\* the costs stored with the appearances ids of a table, added up
RECURSIVE StoredCost(_, _)
StoredCost(table, ids) ==
    IF ids = <<>> THEN 0
    ELSE (IF Head(ids) \in DOMAIN table THEN table[Head(ids)].cost ELSE 0)
         + StoredCost(table, Tail(ids))

\* the costs stored with the appearances of all the segments ids
RECURSIVE StoredCostOfSegments(_, _, _)
StoredCostOfSegments(segmentRecords, table, ids) ==
    IF ids = <<>> THEN 0
    ELSE StoredCost(table, segmentRecords[Head(ids)].appearanceIds)
         + StoredCostOfSegments(segmentRecords, table, Tail(ids))

\* a step keeps the cost of every stored appearance, stores a new appearance
\* with what its wrestler costs at that moment, and completes a production with
\* the sum of the costs stored with its appearances
CostSnapshotStep ==
    /\ \A id \in DOMAIN appearanceTable' :
         IF id \in DOMAIN appearanceTable
         THEN appearanceTable'[id].cost = appearanceTable[id].cost
         ELSE /\ appearanceTable'[id].wrestlerId \in DOMAIN wrestlerTable
              /\ appearanceTable'[id].cost =
                     CostOrZero(wrestlerTable[appearanceTable'[id].wrestlerId])
    /\ \A p \in DOMAIN productionTable :
         (productionTable'[p].complete /\ ~productionTable[p].complete) =>
             productionTable'[p].wrestlersCost =
                 StoredCostOfSegments(segmentTable', appearanceTable',
                                      productionTable'[p].segmentIds)

\* C25: an appearance's cost is a snapshot.  It is what the performer cost when
\* generateAppearances ran (0 without a cost); once the appearance is booked no
\* step changes it, whatever happens to the performer's cost; and the
\* wrestlersCost that simulate_production stores is the sum of those stored
\* costs.
C25_CostIsSnapshot == [][CostSnapshotStep]_vars

\* a production was simulated after the cost of a booked wrestler went up: the
\* appearance still holds the old cost, and the production's wrestlersCost is
\* the sum of the old costs
C25_Witness ==
    /\ tool = "simulate_production"
    /\ callOutcome = Returned
    /\ 1 \in DOMAIN wrestlerTable
    /\ wrestlerTable[1].cost = 250
    /\ \E id \in DOMAIN appearanceTable :
         appearanceTable[id].wrestlerId = 1 /\ appearanceTable[id].cost = 100
    /\ \E p \in DOMAIN productionTable :
         /\ productionTable[p].complete
         /\ productionTable[p].wrestlersCost >= 200
         /\ productionTable[p].wrestlersCost =
                StoredCostOfSegments(segmentTable, appearanceTable,
                                     productionTable[p].segmentIds)


\* C26: simulate_production leaves the store unchanged whenever it reports an
\* error: when the call has thrown, no appearance, wrestler, segment or
\* production record differs from what it was when the call started.
C26_SimulateErrorLeavesStore ==
    \A o \in callOutcome :
        (tool = "simulate_production" /\ o.kind = "threw") => Store = storeBefore


\* C27: starting from wrestlers whose morale and popularity lie in 0..100,
\* after any sequence of boost_wrestler, penalize_wrestler and
\* simulate_production every wrestler's morale and popularity still lie in
\* 0..100.
C27_MoraleAndPopularityInRange ==
    \A id \in DOMAIN wrestlerTable :
        /\ wrestlerTable[id].morale \in 0 .. 100
        /\ wrestlerTable[id].popularity \in 0 .. 100

\* C28: a production marked complete has only segments marked complete: once
\* simulate_production has completed a production, no later operation leaves
\* it with an incomplete segment.
C28_CompleteProductionHasCompleteSegments ==
    \A p \in DOMAIN productionTable :
        productionTable[p].complete =>
            \A i \in 1 .. Len(productionTable[p].segmentIds) :
                LET id == productionTable[p].segmentIds[i]
                IN  id \in DOMAIN segmentTable => segmentTable[id].complete

----------------------------------------------------------------------------
(* Properties of randomize_production, under SpecRandomize *)

\* the wrestlers booked in the segment id
BookedIn(id) ==
    { appearanceTable[a].wrestlerId :
          a \in { b \in DOMAIN appearanceTable :
                      Includes(segmentTable[id].appearanceIds, b) } }

\* the entries of a list
Entries(list) == { list[i] : i \in 1 .. Len(list) }

\* generateAppearances is running for randomize_production
GenerationRuns ==
    /\ tool = "randomize_production"
    /\ pc \in {"gen_start", "gen_count", "gen_gender", "gen_groups", "gen_team",
               "gen_member", "gen_individual", "gen_done"}

\* C29: within one randomize_production run no wrestler is booked in two
\* consecutively booked segments, and while generateAppearances runs the
\* wrestlers of the segment booked last are all in its exclude list, the last
\* 4 entries of the used-wrestler list, whether or not the pool has fallen back
\* to the full roster.
C29_NoConsecutiveBooking ==
    /\ \A i \in 1 .. Len(randomizedSegments) - 1 :
         BookedIn(randomizedSegments[i]) \cap BookedIn(randomizedSegments[i + 1]) = {}
    /\ (GenerationRuns /\ Len(randomizedSegments) > 0) =>
         /\ BookedIn(randomizedSegments[Len(randomizedSegments)]) \subseteq Entries(exclude)
         /\ exclude = LastFour(usedWrestlerIds)
         /\ Len(exclude) <= 4
    /\ (GenerationRuns /\ pc = "gen_done") =>
         \A i \in 1 .. Len(appearances) : ~Includes(exclude, appearances[i].wrestlerId)

\* a third segment was booked from the full roster: a wrestler of the first
\* segment is back, and not one of the second
C29_Witness ==
    /\ tool = "randomize_production"
    /\ pc = "randomize_segment"
    /\ Len(randomizedSegments) = 3
    /\ BookedIn(randomizedSegments[1]) \cap BookedIn(randomizedSegments[3]) # {}
    /\ BookedIn(randomizedSegments[2]) \cap BookedIn(randomizedSegments[3]) = {}

----------------------------------------------------------------------------
(* Properties of update_brand_balance, under SpecBrand *)

\* both calls are over, and both were made on the brand
BothCallsDone ==
    /\ DOMAIN brandCalls = BrandCalls
    /\ \A c \in BrandCalls : brandCalls[c].pc = "done" /\ brandCalls[c].id = 1

\* C30: for every interleaving of two concurrent update_brand_balance calls
\* with amounts a and b on the same brand, the brand's final balance is its
\* initial balance + a + b: no update is lost between the read of
\* brand.balance and the write of the new balance.
C30_NoLostUpdate ==
    BothCallsDone =>
        brandTable[1].balance = InitialBalance + brandCalls[1].amount + brandCalls[2].amount

====
